---- MODULE Spec2Model ----
(***************************************************************************)
(* A model of lambda_framework.cache.async_redis_cache: the asynchronous   *)
(* read-through cache decorator over a Redis client.                       *)
(*                                                                         *)
(* The wrapper runs on one asyncio event loop.  The code between two       *)
(* awaits that suspend (client.get, fn, client.set, client.delete) is one  *)
(* atomic action; awaiting _get_redis() does not suspend, since its body   *)
(* holds no await.  Several invocations (Tasks) may be in flight at once.  *)
(* Strings (keys, stored JSON text) are sequences of one-character strings.*)
(***************************************************************************)
EXTENDS Integers, Sequences, FiniteSets, TLC

VARIABLES
    cfgRedis,      \* decorator option redis: a client was supplied
    cfgUrl,        \* decorator option redis_url: an address was supplied
    cfgTimeout,    \* decorator option timeout, as the caller gave it
    cfgKey,        \* decorator option key: the key prefix, or none
    cfgKeyFunc,    \* decorator option key_func: a key function was supplied
    redisClient,   \* _redis_client
    fromUrlCalls,  \* number of AIORedis.from_url calls made so far
    store,         \* the Redis key space: key -> entry
    cacheKeys,     \* _cache_keys
    hits,          \* cache_info.hits
    misses,        \* cache_info.misses
    currsize,      \* cache_info.currsize
    inv,           \* per task: the wrapper invocation it runs, and what it did
    clr,           \* the cache_clear call in flight, and how the last one ended
    callCount,     \* per argument: invocations of the wrapper started
    fnCount,       \* per argument: times the body of fn was started
    clears,        \* cache_clear calls started
    loss,          \* what so far kept an invoked key from being written by this wrapper
    calc,          \* the last application of a helper function: its inputs and results
    reg,           \* the callables wrapped so far and the objects their wrappers own
    thr,           \* a LambdaThrottler, its semaphore and the requests passing through it
    web            \* a GithubWebhookRouter and the request it is serving

vars == <<reg, thr, web, cfgRedis, cfgUrl, cfgTimeout, cfgKey, cfgKeyFunc, calc, redisClient, fromUrlCalls, store, cacheKeys, hits,
          misses, currsize, inv, clr, callCount, fnCount, clears, loss>>

(***************************************************************************)
(* Bounds of the model.                                                    *)
(***************************************************************************)
\* invocations of the wrapper started, in all
MaxCalls == 2
\* invocations started in the sequential specification
MaxSeqCalls == 4
\* cache_clear calls started
MaxClears == 1

Tasks == {"t1", "t2"}
Args == {1, 2}

Sum(f) == LET RECURSIVE S(_)
              S(D) == IF D = {} THEN 0
                      ELSE LET x == CHOOSE y \in D : TRUE IN f[x] + S(D \ {x})
          IN S(DOMAIN f)

(***************************************************************************)
(* JSON values and _encode / _decode.                                      *)
(***************************************************************************)
JNull == [tag |-> "null", n |-> 0]
JBool(b) == [tag |-> "bool", n |-> IF b THEN 1 ELSE 0]
JInt(i) == [tag |-> "int", n |-> i]
\* a Python object json.dumps has no encoding for (a set, a custom object)
JOpaque == [tag |-> "opaque", n |-> 0]
\* no value: the invocation has not returned
NoValue == [tag |-> "unset", n |-> 0]
\* a string, a list, and a mapping with string keys: its items in insertion order,
\* each [k |-> key, v |-> value], the keys distinct
JStr(s) == [tag |-> "str", s |-> s]
JList(items) == [tag |-> "list", items |-> items]
JDict(items) == [tag |-> "dict", items |-> items]

\* Python's == on these values: True == 1 and False == 0, lists compare item by
\* item, mappings compare as sets of items whatever the insertion order
RECURSIVE PyEq(_, _)
PyEq(v, w) ==
    CASE v.tag \in {"int", "bool"} -> w.tag \in {"int", "bool"} /\ v.n = w.n
      [] v.tag = "null" -> w.tag = "null"
      [] v.tag = "str" -> w.tag = "str" /\ v.s = w.s
      [] v.tag = "list" ->
            /\ w.tag = "list"
            /\ Len(v.items) = Len(w.items)
            /\ \A i \in 1..Len(v.items) : PyEq(v.items[i], w.items[i])
      [] v.tag = "dict" ->
            /\ w.tag = "dict"
            /\ Len(v.items) = Len(w.items)
            /\ \A i \in 1..Len(v.items) :
                  \E j \in 1..Len(w.items) : /\ v.items[i].k = w.items[j].k
                                              /\ PyEq(v.items[i].v, w.items[j].v)
      [] OTHER -> FALSE

\* the same JSON value: the same type and content, mappings whatever their
\* insertion order
RECURSIVE JsonEq(_, _)
JsonEq(v, w) ==
    /\ v.tag = w.tag
    /\ CASE v.tag \in {"int", "bool"} -> v.n = w.n
         [] v.tag = "null" -> TRUE
         [] v.tag = "str" -> v.s = w.s
         [] v.tag = "list" ->
               /\ Len(v.items) = Len(w.items)
               /\ \A i \in 1..Len(v.items) : JsonEq(v.items[i], w.items[i])
         [] v.tag = "dict" ->
               /\ Len(v.items) = Len(w.items)
               /\ \A i \in 1..Len(v.items) :
                     \E j \in 1..Len(w.items) : /\ v.items[i].k = w.items[j].k
                                                 /\ JsonEq(v.items[i].v, w.items[j].v)
         [] OTHER -> FALSE

DigitChars == <<"0", "1", "2", "3", "4", "5", "6", "7", "8", "9">>
IsDigit(c) == \E d \in 1..10 : DigitChars[d] = c
DigitVal(c) == (CHOOSE d \in 1..10 : DigitChars[d] = c) - 1

RECURSIVE NatStr(_)
NatStr(n) == IF n < 10 THEN <<DigitChars[n + 1]>>
             ELSE NatStr(n \div 10) \o <<DigitChars[(n % 10) + 1]>>

IntStr(i) == IF i < 0 THEN <<"-">> \o NatStr(-i) ELSE NatStr(i)

RECURSIVE ParseNat(_)
ParseNat(s) == IF Len(s) = 0 THEN 0
               ELSE 10 * ParseNat(SubSeq(s, 1, Len(s) - 1)) + DigitVal(s[Len(s)])

\* JSON's number grammar for integers: -? (0 | [1-9][0-9]*)
IsJsonNat(s) == /\ Len(s) >= 1
                /\ \A i \in 1..Len(s) : IsDigit(s[i])
                /\ (Len(s) > 1 => s[1] # "0")
IsJsonInt(s) == IF Len(s) >= 1 /\ s[1] = "-" THEN IsJsonNat(Tail(s)) ELSE IsJsonNat(s)

\* the values json.dumps has an encoding for: every part of the value is one
RECURSIVE CanEncode(_)
CanEncode(v) ==
    CASE v.tag \in {"null", "bool", "int", "str"} -> TRUE
      [] v.tag = "list" -> \A i \in 1..Len(v.items) : CanEncode(v.items[i])
      [] v.tag = "dict" -> \A i \in 1..Len(v.items) : CanEncode(v.items[i].v)
      [] OTHER -> FALSE

\* the code point of a character
CharCode(c) ==
    CASE c = " " -> 32
      [] c = "\"" -> 34
      [] c = "," -> 44
      [] c = ":" -> 58
      [] c = "\\" -> 92
      [] c = "a" -> 97
      [] c = "b" -> 98

\* Python's < on strings: by code point, a proper prefix first
RECURSIVE StrLess(_, _)
StrLess(s, t) ==
    IF s = <<>> THEN t # <<>>
    ELSE IF t = <<>> THEN FALSE
    ELSE IF s[1] = t[1] THEN StrLess(Tail(s), Tail(t))
    ELSE CharCode(s[1]) < CharCode(t[1])

\* SortedItems with the bug of sort_keys=False: the items in insertion order
SortedItems_InsertionOrder(items) == items

\* sort_keys=True: the items of a mapping by key
RECURSIVE SortedItems(_)
SortedItems(items) ==
    IF Len(items) = 0 THEN <<>>
    ELSE LET i == CHOOSE i \in 1..Len(items) :
                     \A j \in 1..Len(items) : j # i => StrLess(items[i].k, items[j].k)
         IN <<items[i]>>
            \o SortedItems(SubSeq(items, 1, i - 1) \o SubSeq(items, i + 1, Len(items)))

\* EscapeChar with the bug of writing every character as it is
EscapeChar_Raw(c) == <<c>>

\* a character inside a JSON string: " and \ take a backslash
EscapeChar(c) == IF c \in {"\"", "\\"} THEN <<"\\", c>> ELSE <<c>>

RECURSIVE EncodeChars(_)
EncodeChars(s) == IF Len(s) = 0 THEN <<>> ELSE EscapeChar(s[1]) \o EncodeChars(Tail(s))

EncodeStr(s) == <<"\"">> \o EncodeChars(s) \o <<"\"">>

\* json.dumps(value, sort_keys=True): item separator ", ", key separator ": "
RECURSIVE Encode(_), EncodeList(_), EncodeDict(_)
Encode(v) ==
    CASE v.tag = "null" -> <<"n", "u", "l", "l">>
      [] v.tag = "bool" -> IF v.n = 1 THEN <<"t", "r", "u", "e">>
                           ELSE <<"f", "a", "l", "s", "e">>
      [] v.tag = "int" -> IntStr(v.n)
      [] v.tag = "str" -> EncodeStr(v.s)
      [] v.tag = "list" -> <<"[">> \o EncodeList(v.items) \o <<"]">>
      [] v.tag = "dict" -> <<"{">> \o EncodeDict(SortedItems(v.items)) \o <<"}">>

EncodeList(items) ==
    IF Len(items) = 0 THEN <<>>
    ELSE Encode(items[1])
         \o (IF Len(items) > 1 THEN <<",", " ">> \o EncodeList(Tail(items)) ELSE <<>>)

EncodeDict(items) ==
    IF Len(items) = 0 THEN <<>>
    ELSE EncodeStr(items[1].k) \o <<":", " ">> \o Encode(items[1].v)
         \o (IF Len(items) > 1 THEN <<",", " ">> \o EncodeDict(Tail(items)) ELSE <<>>)

\* the result of a parsing step: whether it succeeded, the value, the text left
ParseFail == [ok |-> FALSE, val |-> NoValue, rest |-> <<>>]
ParseOk(v, rest) == [ok |-> TRUE, val |-> v, rest |-> rest]

StartsWith(s, p) == Len(s) >= Len(p) /\ SubSeq(s, 1, Len(p)) = p
Drop(s, n) == SubSeq(s, n + 1, Len(s))

\* the JSON decoder skips white space around values and separators
RECURSIVE SkipWs(_)
SkipWs(s) == IF Len(s) > 0 /\ s[1] = " " THEN SkipWs(Tail(s)) ELSE s

\* length of the longest prefix made of digits and minus signs
RECURSIVE NumSpan(_)
NumSpan(s) == IF Len(s) > 0 /\ (s[1] = "-" \/ IsDigit(s[1])) THEN 1 + NumSpan(Tail(s))
              ELSE 0

\* a string after its opening quote; of the escapes, \" and \\ are modelled
RECURSIVE ParseString(_, _)
ParseString(s, acc) ==
    IF Len(s) = 0 THEN ParseFail
    ELSE IF s[1] = "\"" THEN ParseOk(JStr(acc), Tail(s))
    ELSE IF s[1] = "\\"
         THEN IF Len(s) >= 2 /\ s[2] \in {"\"", "\\"}
              THEN ParseString(Drop(s, 2), Append(acc, s[2]))
              ELSE ParseFail
    ELSE ParseString(Tail(s), Append(acc, s[1]))

\* d[k] = v on a mapping under construction: a repeated key keeps its place and
\* takes the later value
DictPut(items, k, v) ==
    IF \E i \in 1..Len(items) : items[i].k = k
    THEN [i \in 1..Len(items) |-> IF items[i].k = k THEN [k |-> k, v |-> v]
                                   ELSE items[i]]
    ELSE Append(items, [k |-> k, v |-> v])

\* the JSON grammar, by recursive descent
RECURSIVE ParseValue(_), ParseListRest(_, _), ParseDictRest(_, _)
ParseValue(s0) ==
    LET s == SkipWs(s0) IN
    IF Len(s) = 0 THEN ParseFail
    ELSE CASE StartsWith(s, <<"n", "u", "l", "l">>) -> ParseOk(JNull, Drop(s, 4))
           [] StartsWith(s, <<"t", "r", "u", "e">>) -> ParseOk(JBool(TRUE), Drop(s, 4))
           [] StartsWith(s, <<"f", "a", "l", "s", "e">>) ->
                 ParseOk(JBool(FALSE), Drop(s, 5))
           [] s[1] = "\"" -> ParseString(Tail(s), <<>>)
           [] s[1] = "[" ->
                 LET r == SkipWs(Tail(s)) IN
                 IF Len(r) > 0 /\ r[1] = "]" THEN ParseOk(JList(<<>>), Tail(r))
                 ELSE ParseListRest(r, <<>>)
           [] s[1] = "{" ->
                 LET r == SkipWs(Tail(s)) IN
                 IF Len(r) > 0 /\ r[1] = "}" THEN ParseOk(JDict(<<>>), Tail(r))
                 ELSE ParseDictRest(r, <<>>)
           [] s[1] = "-" \/ IsDigit(s[1]) ->
                 LET num == SubSeq(s, 1, NumSpan(s)) IN
                 IF ~IsJsonInt(num) THEN ParseFail
                 ELSE IF num[1] = "-"
                      THEN ParseOk(JInt(0 - ParseNat(Tail(num))), Drop(s, Len(num)))
                      ELSE ParseOk(JInt(ParseNat(num)), Drop(s, Len(num)))
           [] OTHER -> ParseFail

\* the items of a list from the next item on
ParseListRest(s, acc) ==
    LET r == ParseValue(s) IN
    IF ~r.ok THEN ParseFail
    ELSE LET t == SkipWs(r.rest) IN
         IF Len(t) = 0 THEN ParseFail
         ELSE IF t[1] = "," THEN ParseListRest(Tail(t), Append(acc, r.val))
         ELSE IF t[1] = "]" THEN ParseOk(JList(Append(acc, r.val)), Tail(t))
         ELSE ParseFail

\* the items of a mapping from the next key on
ParseDictRest(s0, acc) ==
    LET s == SkipWs(s0) IN
    IF Len(s) = 0 \/ s[1] # "\"" THEN ParseFail
    ELSE LET k == ParseString(Tail(s), <<>>) IN
         IF ~k.ok THEN ParseFail
         ELSE LET c == SkipWs(k.rest) IN
              IF Len(c) = 0 \/ c[1] # ":" THEN ParseFail
              ELSE LET r == ParseValue(Tail(c)) IN
                   IF ~r.ok THEN ParseFail
                   ELSE LET t == SkipWs(r.rest)
                            items == DictPut(acc, k.val.s, r.val)
                        IN IF Len(t) = 0 THEN ParseFail
                           ELSE IF t[1] = "," THEN ParseDictRest(Tail(t), items)
                           ELSE IF t[1] = "}" THEN ParseOk(JDict(items), Tail(t))
                           ELSE ParseFail

\* json.loads accepts the text: one value and nothing after it
CanDecode(s) == LET r == ParseValue(s) IN r.ok /\ Len(SkipWs(r.rest)) = 0

\* json.loads(encoded_value)
Decode(s) == ParseValue(s).val

\* a stored string json.loads rejects
Corrupt == <<"{">>

(***************************************************************************)
(* Key derivation.                                                         *)
(***************************************************************************)
FuncModule == <<"m">>
FuncName == <<"f">>
\* decorator option key (the prefix): None, or a string
NoKey == [has |-> FALSE, s |-> <<>>]
KeyOpt(s) == [has |-> TRUE, s |-> s]
\* the prefix of test_key_prefix
TestPrefix == <<"myprefix">>
KeyOptions == {NoKey, KeyOpt(TestPrefix)}

\* _make_key, lines 195-197: the prefix and the separator in front of the base key
ComposeKey(key, base_key) == IF key.has THEN key.s \o <<":">> \o base_key ELSE base_key

\* my_key_func of test_custom_key_func: f"custom:user:{user_id}"
MyKeyFunc(a) == <<"custom", ":", "user", ":">> \o IntStr(a)

\* CPython's hash of a small integer: the integer, except that -1 hashes to -2.
\* hash((args, frozenset())) mixes the hashes of the elements; the model keeps the
\* element's hash itself.
PyHash(a) == IF a = -1 THEN -2 ELSE a

\* A call of the wrapper: its positional arguments in order and its keyword
\* arguments in the order given, each [name |-> n, val |-> v], the names distinct.
Call(args, kw) == [args |-> args, kw |-> kw]
KwArg(n, v) == [name |-> n, val |-> v]
\* the keyword names, in the order the model writes them out
KwNames == <<"x", "y">>

\* hash(v) for an argument value under the process's string hash seed: an integer
\* hashes to itself but -1 to -2, True to 1, False to 0, "" to 0; a non-empty string
\* hashes to a seeded value, kept here as the pair of seed and string
PyHashOf(seed, v) ==
    CASE v.tag = "int" -> [kind |-> "num", n |-> PyHash(v.n)]
      [] v.tag = "bool" -> [kind |-> "num", n |-> v.n]
      [] v.tag = "str" -> IF v.s = <<>> THEN [kind |-> "num", n |-> 0]
                          ELSE [kind |-> "str", seed |-> seed, s |-> v.s]

\* the digits of a hash; a seeded string hash is written as its seed and string
HashStr(h) == IF h.kind = "num" THEN IntStr(h.n)
              ELSE <<"s">> \o NatStr(h.seed) \o <<"_">> \o h.s

\* hash(args): CPython mixes the hashes of the elements, in order, into one integer.
\* The model writes the element hashes side by side: two tuples get the same text
\* exactly when their elements have the same hashes.
RECURSIVE TupleHashStr(_, _)
TupleHashStr(seed, args) ==
    IF Len(args) = 0 THEN <<>>
    ELSE HashStr(PyHashOf(seed, args[1]))
         \o (IF Len(args) > 1 THEN <<",">> \o TupleHashStr(seed, Tail(args)) ELSE <<>>)

\* KwItems with the bug of hashing the keyword arguments in the order given
KwItems_InOrder(kw) == kw

\* frozenset(kwargs.items()), line 78: the items as a set, their order lost. The
\* model holds the set as the sequence of its items by name.
KwItems(kw) ==
    LET present == SelectSeq(KwNames, LAMBDA n : \E i \in 1..Len(kw) : kw[i].name = n)
    IN [i \in 1..Len(present) |->
           kw[CHOOSE j \in 1..Len(kw) : kw[j].name = present[i]]]

\* hash of the items: a combination of the item hashes, written out item by item
RECURSIVE ItemsHashStr(_, _)
ItemsHashStr(seed, ordered) ==
    IF Len(ordered) = 0 THEN <<>>
    ELSE <<";", ordered[1].name, "=">> \o HashStr(PyHashOf(seed, ordered[1].val))
         \o ItemsHashStr(seed, Tail(ordered))

\* _default_key_func, lines 78-82
DefaultKeyOf(seed, call) ==
    LET kwargs_items == KwItems(call.kw)
        arg_hash == TupleHashStr(seed, call.args)
                    \o ItemsHashStr(seed, kwargs_items)
    IN FuncModule \o <<":">> \o FuncName \o <<":">> \o arg_hash

\* _default_key_func for the one positional integer the wrapper is invoked with
DefaultKeyFunc(a) == FuncModule \o <<":">> \o FuncName \o <<":">> \o IntStr(PyHash(a))

\* MakeKey with the bug of deriving the default key although a key function is given
MakeKey_IgnoresKeyFunc(a) ==
    LET base_key == DefaultKeyFunc(a)
    IN ComposeKey(cfgKey, base_key)

\* _make_key, lines 188-197
MakeKey(a) ==
    LET base_key == IF cfgKeyFunc THEN MyKeyFunc(a) ELSE DefaultKeyFunc(a)
    IN ComposeKey(cfgKey, base_key)

Keys == {MakeKey(a) : a \in Args}

\* the wrapped callable of the tests: async def compute(x): return x * 2
Compute(a) == JInt(a * 2)

(***************************************************************************)
(* The store (Redis) and the client.                                       *)
(***************************************************************************)
Absent == [present |-> FALSE, val |-> <<>>]
Entry(s) == [present |-> TRUE, val |-> s]

NoClient == [kind |-> "none", id |-> 0]
SuppliedClient == [kind |-> "supplied", id |-> 0]
\* the n-th client AIORedis.from_url returned
UrlClient(n) == [kind |-> "from_url", id |-> n]

\* _get_redis: the client it returns, the error it raises, the from_url calls it makes
GetRedis_NoMemo ==
    IF cfgRedis THEN [err |-> "none", client |-> redisClient, made |-> 0]
    ELSE IF ~cfgUrl THEN [err |-> "ValueError", client |-> NoClient, made |-> 0]
    ELSE [err |-> "none", client |-> UrlClient(fromUrlCalls + 1), made |-> 1]

GetRedis_NoError ==
    IF redisClient = NoClient
    THEN IF ~cfgUrl THEN [err |-> "none", client |-> NoClient, made |-> 0]
         ELSE [err |-> "none", client |-> UrlClient(fromUrlCalls + 1), made |-> 1]
    ELSE [err |-> "none", client |-> redisClient, made |-> 0]

GetRedis ==
    IF redisClient = NoClient
    THEN IF ~cfgUrl THEN [err |-> "ValueError", client |-> NoClient, made |-> 0]
         ELSE [err |-> "none", client |-> UrlClient(fromUrlCalls + 1), made |-> 1]
    ELSE [err |-> "none", client |-> redisClient, made |-> 0]

(***************************************************************************)
(* The timeout option and the expiry of a write.                           *)
(***************************************************************************)
DEFAULT_TIMEOUT == 60
\* the timeout of test_timeout_passed_to_redis_set
TestTimeout == 3600
\* the default the docstring of async_redis_cache states: one week
DocumentedTimeout == 604800

\* the option as given at decoration: left out, None, or a number of seconds
OptOmitted == [given |-> FALSE, none |-> FALSE, secs |-> 0]
OptNone == [given |-> TRUE, none |-> TRUE, secs |-> 0]
OptSecs(n) == [given |-> TRUE, none |-> FALSE, secs |-> n]
TimeoutOptions == {OptOmitted, OptNone, OptSecs(TestTimeout)}

\* the parameter timeout as the decorator binds it: a missing option takes the default
Timeout(opt) == IF opt.given THEN [none |-> opt.none, secs |-> opt.secs]
                ELSE [none |-> FALSE, secs |-> DEFAULT_TIMEOUT]

\* a client.set call without ex
NoExpiry == [has |-> FALSE, secs |-> 0]

\* SetEx with the bug of passing the default expiry whatever the option
SetEx_AlwaysDefault(timeout) == [has |-> TRUE, secs |-> DEFAULT_TIMEOUT]

\* wrapper, lines 225-228: the ex argument of the client.set call
SetEx(timeout) == IF ~timeout.none THEN [has |-> TRUE, secs |-> timeout.secs]
                  ELSE NoExpiry

\* no helper function has been applied
NoCalc == [op |-> "none"]

(***************************************************************************)
(* One invocation of the wrapper: what the task holds between awaits    *)
(* (pc, arg, key, client, result, wval) and a record of what it did.       *)
(***************************************************************************)
IdleInv == [pc |-> "idle", arg |-> 0, key |-> <<>>, client |-> NoClient,
            reads |-> 0, read |-> "none", fnCalls |-> 0, fnArg |-> 0,
            fnOut |-> "none", result |-> NoValue, writes |-> 0, wval |-> <<>>,
            wex |-> NoExpiry, wrote |-> FALSE,
            hitsInc |-> 0, missInc |-> 0, tracked |-> FALSE,
            outcome |-> "none", ret |-> NoValue, err |-> "none",
            cancelledAt |-> "none"]

\* cache_clear: whether it awaits client.delete, the keys it passed, how it ended
IdleClr == [pc |-> "idle", client |-> NoClient, keys |-> {}, deletes |-> 0,
            delRaised |-> FALSE, outcome |-> "none"]

\* get_cache_info returns cache_info itself, the object the wrapper keeps counting
\* in: the hits, misses and currsize read through a result it has returned
InfoValues == [hits |-> hits, misses |-> misses, currsize |-> currsize]

\* the results the wrapped callable may return for argument a
FnResults(a) == {Compute(a), JOpaque}

\* a value another process stored, which is not what fn computes
Foreign == JInt(7)

\* the store at wrap time: empty, or holding for the key of argument 1 what another
\* process wrote there (a JSON text, or a text json.loads rejects)
InitStores == {s \in [Keys -> {Absent, Entry(Encode(Foreign)), Entry(Corrupt)}] :
                  \A k \in Keys : k # MakeKey(1) => s[k] = Absent}

\* the names two wrapped callables are bound to
Wrappers == {"w1", "w2"}

\* the process before any decorator(fn) call of the two: no CacheInfo object, no
\* tracked-key set, no wrapper, an empty store
NoneWrapped == [infos |-> <<>>, keysets |-> <<>>, wrap |-> [w \in Wrappers |-> [made |-> FALSE]],
                kv |-> {}, calls |-> 0]

\* no throttler and no webhook router constructed yet
NoThrottler == [made |-> FALSE]
NoRouter == [made |-> FALSE]

\* the wrapper as the decorator leaves it, whatever the timeout option
InitWrapper ==
    /\ cfgRedis \in BOOLEAN
    /\ cfgUrl \in BOOLEAN
    /\ redisClient = IF cfgRedis THEN SuppliedClient ELSE NoClient
    /\ fromUrlCalls = 0
    /\ store \in InitStores
    /\ cacheKeys = {}
    /\ hits = 0
    /\ misses = 0
    /\ currsize = 0
    /\ inv = [t \in Tasks |-> IdleInv]
    /\ clr = IdleClr
    /\ callCount = [a \in Args |-> 0]
    /\ fnCount = [a \in Args |-> 0]
    /\ clears = 0
    /\ loss = IF \A k \in Keys : ~store[k].present THEN "none" ELSE "store"
    /\ reg = NoneWrapped
    /\ thr = NoThrottler
    /\ web = NoRouter

\* decorated without key and key_func: the default key, no prefix
DefaultKeying ==
    /\ cfgKey = NoKey
    /\ cfgKeyFunc = FALSE

\* the wrapper decorated without a timeout, key or key_func option
Init ==
    /\ DefaultKeying
    /\ InitWrapper
    /\ cfgTimeout = OptOmitted
    /\ calc = NoCalc

\* wrapper, lines 200-206: resolve the client, derive the key, issue client.get
WrapperCall(t, a) ==
    /\ inv[t].pc \in {"idle", "done"}
    /\ callCount' = [callCount EXCEPT ![a] = @ + 1]
    /\ LET r == GetRedis IN
       IF r.err # "none"
       THEN /\ inv' = [inv EXCEPT ![t] = [IdleInv EXCEPT !.pc = "done", !.arg = a,
                                             !.outcome = "raised", !.err = r.err]]
            /\ UNCHANGED <<redisClient, fromUrlCalls>>
       ELSE /\ redisClient' = r.client
            /\ fromUrlCalls' = fromUrlCalls + r.made
            /\ inv' = [inv EXCEPT ![t] = [IdleInv EXCEPT !.pc = "get", !.arg = a,
                                             !.key = MakeKey(a), !.client = r.client,
                                             !.reads = 1]]
    /\ UNCHANGED <<reg, thr, web, cfgRedis, cfgUrl, cfgTimeout, cfgKey, cfgKeyFunc, calc, store, cacheKeys, hits, misses, currsize, clr,
                   fnCount, clears, loss>>

\* MissStep with a per-key lock: a miss that finds the key being computed by another
\* invocation does not start fn
MissStep_SingleFlight(t, how, h) ==
    IF \E u \in Tasks \ {t} : inv[u].key = inv[t].key /\ inv[u].pc \in {"fn", "set"}
    THEN /\ inv' = [inv EXCEPT ![t] = [@ EXCEPT !.pc = "done", !.read = how,
                                          !.hitsInc = h, !.outcome = "returned"]]
         /\ UNCHANGED <<misses, fnCount>>
    ELSE /\ misses' = misses + 1
         /\ fnCount' = [fnCount EXCEPT ![inv[t].arg] = @ + 1]
         /\ inv' = [inv EXCEPT ![t] = [@ EXCEPT !.pc = "fn", !.read = how,
                                          !.hitsInc = h, !.missInc = 1, !.fnCalls = 1,
                                          !.fnArg = inv[t].arg]]

\* MissStep with the bug of no try/except around client.get: its error propagates
MissStep_ReadErrorPropagates(t, how, h) ==
    IF how = "error"
    THEN /\ inv' = [inv EXCEPT ![t] = [@ EXCEPT !.pc = "done", !.read = how,
                                          !.outcome = "raised", !.err = "RedisError"]]
         /\ UNCHANGED <<misses, fnCount>>
    ELSE /\ misses' = misses + 1
         /\ fnCount' = [fnCount EXCEPT ![inv[t].arg] = @ + 1]
         /\ inv' = [inv EXCEPT ![t] = [@ EXCEPT !.pc = "fn", !.read = how,
                                          !.hitsInc = h, !.missInc = 1, !.fnCalls = 1,
                                          !.fnArg = inv[t].arg]]

\* MissStep with the bug of starting fn without counting the miss
MissStep_NoCount(t, how, h) ==
    /\ UNCHANGED misses
    /\ fnCount' = [fnCount EXCEPT ![inv[t].arg] = @ + 1]
    /\ inv' = [inv EXCEPT ![t] = [@ EXCEPT !.pc = "fn", !.read = how, !.hitsInc = h,
                                     !.fnCalls = 1, !.fnArg = inv[t].arg]]

\* wrapper, lines 217-219: count the miss and start fn
MissStep(t, how, h) ==
    /\ misses' = misses + 1
    /\ fnCount' = [fnCount EXCEPT ![inv[t].arg] = @ + 1]
    /\ inv' = [inv EXCEPT ![t] = [@ EXCEPT !.pc = "fn", !.read = how, !.hitsInc = h,
                                     !.missInc = 1, !.fnCalls = 1, !.fnArg = inv[t].arg]]

\* HitStep with the bug of writing the value back on a hit to renew its expiry
HitStep_RenewsEntry(t, s) ==
    /\ hits' = hits + 1
    /\ inv' = [inv EXCEPT ![t] = [@ EXCEPT !.pc = "set", !.read = "hit", !.hitsInc = 1,
                                     !.result = Decode(s), !.writes = 1, !.wval = s]]
    /\ UNCHANGED <<misses, fnCount>>

\* HitStep with the bug of returning the value without counting the hit
HitStep_NoCount(t, s) ==
    /\ UNCHANGED hits
    /\ inv' = [inv EXCEPT ![t] = [@ EXCEPT !.pc = "done", !.read = "hit",
                                     !.outcome = "returned", !.ret = Decode(s)]]
    /\ UNCHANGED <<misses, fnCount>>

\* wrapper, lines 207-209 with a value json.loads accepts: count the hit, return it
HitStep(t, s) ==
    /\ hits' = hits + 1
    /\ inv' = [inv EXCEPT ![t] = [@ EXCEPT !.pc = "done", !.read = "hit", !.hitsInc = 1,
                                     !.outcome = "returned", !.ret = Decode(s)]]
    /\ UNCHANGED <<misses, fnCount>>

\* WrapperGetReturn with the bug of deciding presence on the decoded value: a stored
\* null counts as absent
WrapperGetReturn_DecodedPresence(t, o) ==
    /\ inv[t].pc = "get"
    /\ LET e == store[inv[t].key] IN
       IF o = "ok" /\ e.present /\ (CanDecode(e.val) => Decode(e.val) # JNull)
       THEN IF CanDecode(e.val)
            THEN HitStep(t, e.val)
            ELSE /\ hits' = hits + 1
                 /\ MissStep(t, "corrupt", 1)
       ELSE /\ MissStep(t, IF o = "raise" THEN "error" ELSE "absent", 0)
            /\ UNCHANGED hits
    /\ UNCHANGED <<reg, thr, web, cfgRedis, cfgUrl, cfgTimeout, cfgKey, cfgKeyFunc, calc, redisClient, fromUrlCalls, store, cacheKeys,
                   currsize, clr, callCount, clears, loss>>

\* wrapper, lines 205-219: client.get completes (o = "ok") or raises (o = "raise")
WrapperGetReturn(t, o) ==
    /\ inv[t].pc = "get"
    /\ LET e == store[inv[t].key] IN
       IF o = "ok" /\ e.present
       THEN IF CanDecode(e.val)
            THEN HitStep(t, e.val)
            ELSE \* hits += 1 ran before _decode raised into the except clause
                 /\ hits' = hits + 1
                 /\ MissStep(t, "corrupt", 1)
       ELSE /\ MissStep(t, IF o = "raise" THEN "error" ELSE "absent", 0)
            /\ UNCHANGED hits
    /\ UNCHANGED <<reg, thr, web, cfgRedis, cfgUrl, cfgTimeout, cfgKey, cfgKeyFunc, calc, redisClient, fromUrlCalls, store, cacheKeys,
                   currsize, clr, callCount, clears, loss>>

\* FnRaised with the bug of swallowing fn's error and returning None
FnRaised_Swallowed(t) ==
    inv' = [inv EXCEPT ![t] = [@ EXCEPT !.pc = "done", !.fnOut = "raised",
                                  !.outcome = "returned", !.ret = JNull]]

\* wrapper, line 219: fn raised; nothing catches it
FnRaised(t) ==
    inv' = [inv EXCEPT ![t] = [@ EXCEPT !.pc = "done", !.fnOut = "raised",
                                  !.outcome = "raised", !.err = "FnError"]]

\* WrapperFnReturn with the bug of _encode outside the try block: its error propagates
WrapperFnReturn_EncodeErrorPropagates(t, o, r) ==
    /\ inv[t].pc = "fn"
    /\ IF o = "raise"
       THEN FnRaised(t)
       ELSE IF CanEncode(r)
            THEN inv' = [inv EXCEPT ![t] = [@ EXCEPT !.pc = "set", !.fnOut = "returned",
                                               !.result = r, !.writes = 1,
                                               !.wval = Encode(r),
                                               !.wex = SetEx(Timeout(cfgTimeout))]]
            ELSE inv' = [inv EXCEPT ![t] = [@ EXCEPT !.pc = "done", !.fnOut = "returned",
                                               !.result = r, !.outcome = "raised",
                                               !.err = "TypeError"]]
    /\ loss' = IF (o = "raise" \/ ~CanEncode(r)) /\ loss = "none" THEN "call" ELSE loss
    /\ UNCHANGED <<reg, thr, web, cfgRedis, cfgUrl, cfgTimeout, cfgKey, cfgKeyFunc, calc, redisClient, fromUrlCalls, store, cacheKeys, hits,
                   misses, currsize, clr, callCount, fnCount, clears>>

\* wrapper, lines 219-227: fn raises, or returns r; encode r and issue client.set
WrapperFnReturn(t, o, r) ==
    /\ inv[t].pc = "fn"
    /\ IF o = "raise"
       THEN FnRaised(t)
       ELSE IF CanEncode(r)
            THEN inv' = [inv EXCEPT ![t] = [@ EXCEPT !.pc = "set", !.fnOut = "returned",
                                               !.result = r, !.writes = 1,
                                               !.wval = Encode(r),
                                               !.wex = SetEx(Timeout(cfgTimeout))]]
            ELSE \* _encode raised into the except clause: no client.set
                 inv' = [inv EXCEPT ![t] = [@ EXCEPT !.pc = "done", !.fnOut = "returned",
                                               !.result = r, !.outcome = "returned",
                                               !.ret = r]]
    /\ loss' = IF (o = "raise" \/ ~CanEncode(r)) /\ loss = "none" THEN "call" ELSE loss
    /\ UNCHANGED <<reg, thr, web, cfgRedis, cfgUrl, cfgTimeout, cfgKey, cfgKeyFunc, calc, redisClient, fromUrlCalls, store, cacheKeys, hits,
                   misses, currsize, clr, callCount, fnCount, clears>>

\* SetOk with the bug of never adding the key to the tracked-key set
SetOk_NoTrack(t) ==
    /\ store' = [store EXCEPT ![inv[t].key] = Entry(inv[t].wval)]
    /\ UNCHANGED cacheKeys
    /\ inv' = [inv EXCEPT ![t] = [@ EXCEPT !.pc = "done", !.wrote = TRUE,
                                     !.outcome = "returned", !.ret = inv[t].result]]

\* SetOk with the bug of tracking the key without the entry reaching the store
SetOk_NoStore(t) ==
    /\ UNCHANGED store
    /\ cacheKeys' = cacheKeys \cup {inv[t].key}
    /\ inv' = [inv EXCEPT ![t] = [@ EXCEPT !.pc = "done", !.wrote = TRUE,
                                     !.tracked = TRUE, !.outcome = "returned",
                                     !.ret = inv[t].result]]

\* wrapper, lines 225-229 and 235: client.set returned; track the key, return result
SetOk(t) ==
    /\ store' = [store EXCEPT ![inv[t].key] = Entry(inv[t].wval)]
    /\ cacheKeys' = cacheKeys \cup {inv[t].key}
    /\ inv' = [inv EXCEPT ![t] = [@ EXCEPT !.pc = "done", !.wrote = TRUE,
                                     !.tracked = TRUE, !.outcome = "returned",
                                     !.ret = inv[t].result]]

\* SetRaised with the bug of tracking the key before the write is confirmed
SetRaised_Tracks(t) ==
    /\ inv' = [inv EXCEPT ![t] = [@ EXCEPT !.pc = "done", !.tracked = TRUE,
                                     !.outcome = "returned", !.ret = inv[t].result]]
    /\ cacheKeys' = cacheKeys \cup {inv[t].key}
    /\ UNCHANGED store

\* wrapper, lines 230-235: client.set raised into the except clause; return result
SetRaised(t) ==
    /\ inv' = [inv EXCEPT ![t] = [@ EXCEPT !.pc = "done", !.outcome = "returned",
                                     !.ret = inv[t].result]]
    /\ UNCHANGED <<store, cacheKeys>>

\* wrapper, lines 225-235: client.set completes (o = "ok") or raises (o = "raise")
WrapperSetReturn(t, o) ==
    /\ inv[t].pc = "set"
    /\ IF o = "ok" THEN SetOk(t) ELSE SetRaised(t)
    /\ loss' = IF o = "raise" THEN "store" ELSE loss
    /\ UNCHANGED <<reg, thr, web, cfgRedis, cfgUrl, cfgTimeout, cfgKey, cfgKeyFunc, calc, redisClient, fromUrlCalls, hits, misses, currsize,
                   clr, callCount, fnCount, clears>>

\* CancelStep with the bug of a handler that also catches the cancellation of the read
CancelStep_Swallowed(t) ==
    IF inv[t].pc = "get"
    THEN /\ misses' = misses + 1
         /\ fnCount' = [fnCount EXCEPT ![inv[t].arg] = @ + 1]
         /\ inv' = [inv EXCEPT ![t] = [@ EXCEPT !.pc = "fn", !.read = "error",
                                          !.missInc = 1, !.fnCalls = 1,
                                          !.fnArg = inv[t].arg, !.cancelledAt = "get"]]
    ELSE /\ inv' = [inv EXCEPT ![t] = [@ EXCEPT !.pc = "cancelled",
                                          !.cancelledAt = inv[t].pc,
                                          !.outcome = "cancelled",
                                          !.err = "CancelledError"]]
         /\ UNCHANGED <<misses, fnCount>>

\* wrapper, lines 206, 219, 226-228: CancelledError raised at the await; it is no
\* Exception, so neither except clause catches it and the wrapper ends there
CancelStep(t) ==
    /\ inv' = [inv EXCEPT ![t] = [@ EXCEPT !.pc = "cancelled", !.cancelledAt = inv[t].pc,
                                     !.outcome = "cancelled", !.err = "CancelledError"]]
    /\ UNCHANGED <<misses, fnCount>>

\* the task running the wrapper is cancelled at its await and ends there (a cancelled
\* task makes no further invocation); a client.set that is cancelled may have
\* reached the store (applied) or not
WrapperCancel(t, applied) ==
    /\ inv[t].pc \in {"get", "fn", "set"}
    /\ applied => inv[t].pc = "set"
    /\ CancelStep(t)
    /\ store' = IF applied THEN [store EXCEPT ![inv[t].key] = Entry(inv[t].wval)]
                ELSE store
    /\ loss' = IF loss = "none" THEN "call" ELSE loss
    /\ UNCHANGED <<reg, thr, web, cfgRedis, cfgUrl, cfgTimeout, cfgKey, cfgKeyFunc, calc, redisClient, fromUrlCalls, cacheKeys, hits,
                   currsize, clr, callCount, clears>>

\* GetCacheInfo with the bug of taking the size from the store, not the tracked set
GetCacheInfo_CountsStore ==
    /\ currsize' = Cardinality({k \in Keys : store[k].present})
    /\ UNCHANGED <<reg, thr, web, cfgRedis, cfgUrl, cfgTimeout, cfgKey, cfgKeyFunc, calc, redisClient, fromUrlCalls, store, cacheKeys, hits,
                   misses, inv, clr, callCount, fnCount, clears, loss>>

\* get_cache_info, lines 237-240: set currsize on cache_info and return that object
GetCacheInfo ==
    /\ currsize' = Cardinality(cacheKeys)
    /\ UNCHANGED <<reg, thr, web, cfgRedis, cfgUrl, cfgTimeout, cfgKey, cfgKeyFunc, calc, redisClient, fromUrlCalls, store, cacheKeys, hits,
                   misses, inv, clr, callCount, fnCount, clears, loss>>

\* cache_clear, lines 258-260
ClearLocal ==
    /\ cacheKeys' = {}
    /\ hits' = 0
    /\ misses' = 0

\* DeleteKeys with the bug of deleting whatever the store holds, tracked or not
DeleteKeys_AllInStore == {k \in Keys : store[k].present}

\* cache_clear, line 254: the keys passed to the one client.delete call
DeleteKeys == cacheKeys

\* CacheClearCall with the bug of resolving the client before looking at the tracked
\* set and outside the try block
CacheClearCall_ResolvesFirst ==
    /\ clr.pc = "idle"
    /\ clears' = clears + 1
    /\ LET r == GetRedis IN
       IF r.err # "none"
       THEN /\ clr' = [IdleClr EXCEPT !.outcome = "raised"]
            /\ UNCHANGED <<redisClient, fromUrlCalls, cacheKeys, hits, misses>>
       ELSE /\ redisClient' = r.client
            /\ fromUrlCalls' = fromUrlCalls + r.made
            /\ IF cacheKeys # {}
               THEN /\ clr' = [IdleClr EXCEPT !.pc = "delete", !.client = r.client,
                                              !.keys = DeleteKeys, !.deletes = 1]
                    /\ UNCHANGED <<cacheKeys, hits, misses>>
               ELSE /\ ClearLocal
                    /\ clr' = [IdleClr EXCEPT !.outcome = "returned"]
    /\ UNCHANGED <<reg, thr, web, cfgRedis, cfgUrl, cfgTimeout, cfgKey, cfgKeyFunc, calc, store, currsize, inv, callCount, fnCount, loss>>

\* cache_clear, lines 251-260 up to the await of client.delete
CacheClearCall ==
    /\ clr.pc = "idle"
    /\ clears' = clears + 1
    /\ IF cacheKeys # {}
       THEN LET r == GetRedis IN
            IF r.err # "none"
            THEN \* raised inside the try: swallowed
                 /\ ClearLocal
                 /\ clr' = [IdleClr EXCEPT !.outcome = "returned"]
                 /\ UNCHANGED <<redisClient, fromUrlCalls>>
            ELSE /\ redisClient' = r.client
                 /\ fromUrlCalls' = fromUrlCalls + r.made
                 /\ clr' = [IdleClr EXCEPT !.pc = "delete", !.client = r.client,
                                           !.keys = DeleteKeys, !.deletes = 1]
                 /\ UNCHANGED <<cacheKeys, hits, misses>>
       ELSE /\ ClearLocal
            /\ clr' = [IdleClr EXCEPT !.outcome = "returned"]
            /\ UNCHANGED <<redisClient, fromUrlCalls>>
    /\ UNCHANGED <<reg, thr, web, cfgRedis, cfgUrl, cfgTimeout, cfgKey, cfgKeyFunc, calc, store, currsize, inv, callCount, fnCount, loss>>

\* DeleteRaised with the bug of no try/except around client.delete
DeleteRaised_Propagates ==
    /\ clr' = [clr EXCEPT !.pc = "idle", !.delRaised = TRUE, !.outcome = "raised"]
    /\ UNCHANGED <<store, cacheKeys, hits, misses>>

\* DeleteRaised with the bug of resetting the local state inside the try block
DeleteRaised_NoReset ==
    /\ clr' = [clr EXCEPT !.pc = "idle", !.delRaised = TRUE, !.outcome = "returned"]
    /\ UNCHANGED <<store, cacheKeys, hits, misses>>

\* cache_clear, lines 256-260: client.delete raised into the except clause
DeleteRaised ==
    /\ ClearLocal
    /\ clr' = [clr EXCEPT !.pc = "idle", !.delRaised = TRUE, !.outcome = "returned"]
    /\ UNCHANGED store

\* cache_clear, lines 254-260: client.delete completes (o = "ok") or raises
CacheClearReturn(o) ==
    /\ clr.pc = "delete"
    /\ IF o = "ok"
       THEN /\ store' = [k \in Keys |-> IF k \in clr.keys THEN Absent ELSE store[k]]
            /\ ClearLocal
            /\ clr' = [clr EXCEPT !.pc = "idle", !.outcome = "returned"]
       ELSE DeleteRaised
    /\ UNCHANGED <<reg, thr, web, cfgRedis, cfgUrl, cfgTimeout, cfgKey, cfgKeyFunc, calc, redisClient, fromUrlCalls, currsize, inv,
                   callCount, fnCount, clears, loss>>

Next ==
    \/ \E t \in Tasks, a \in Args : Sum(callCount) < MaxCalls /\ WrapperCall(t, a)
    \/ \E t \in Tasks, o \in {"ok", "raise"} : WrapperGetReturn(t, o)
    \/ \E t \in Tasks, o \in {"return", "raise"} :
          \E r \in FnResults(inv[t].arg) : WrapperFnReturn(t, o, r)
    \/ \E t \in Tasks, o \in {"ok", "raise"} : WrapperSetReturn(t, o)
    \/ \E t \in Tasks, applied \in BOOLEAN :
          WrapperCancel(t, applied)
    \/ GetCacheInfo
    \/ clears < MaxClears /\ CacheClearCall
    \/ \E o \in {"ok", "raise"} : CacheClearReturn(o)

Spec == Init /\ [][Next]_vars

(***************************************************************************)
(* Sequential use against a reliable store that starts empty: one          *)
(* invocation at a time, no store operation raises, fn returns, nothing    *)
(* expires and cache_clear is not called.                                  *)
(***************************************************************************)
InitSeq ==
    /\ Init
    /\ cfgRedis \/ cfgUrl
    /\ store = [k \in Keys |-> Absent]

Quiescent == \A t \in Tasks : inv[t].pc \in {"idle", "done", "cancelled"}

NextSeq ==
    \/ \E t \in Tasks, a \in Args :
          Sum(callCount) < MaxSeqCalls /\ Quiescent /\ WrapperCall(t, a)
    \/ \E t \in Tasks : WrapperGetReturn(t, "ok")
    \/ \E t \in Tasks : WrapperFnReturn(t, "return", Compute(inv[t].arg))
    \/ \E t \in Tasks : WrapperSetReturn(t, "ok")
    \/ GetCacheInfo

SpecSeq == InitSeq /\ [][NextSeq]_vars

(***************************************************************************)
(* Concurrent use against a reliable store that starts empty: invocations  *)
(* and cache_clear interleave at their awaits, no store operation raises,  *)
(* fn returns, nothing expires and no task is cancelled.                   *)
(***************************************************************************)
NextReliable ==
    \/ \E t \in Tasks, a \in Args : Sum(callCount) < MaxCalls /\ WrapperCall(t, a)
    \/ \E t \in Tasks : WrapperGetReturn(t, "ok")
    \/ \E t \in Tasks : WrapperFnReturn(t, "return", Compute(inv[t].arg))
    \/ \E t \in Tasks : WrapperSetReturn(t, "ok")
    \/ GetCacheInfo
    \/ clears < MaxClears /\ CacheClearCall
    \/ CacheClearReturn("ok")

SpecReliable == InitSeq /\ [][NextReliable]_vars

(***************************************************************************)
(* Sequential use with invalidation: one invocation or one cache_clear at  *)
(* a time against a store that starts empty, where client.get and          *)
(* client.set succeed, client.delete may raise, and fn returns None or a   *)
(* number for argument 1 and an object json.dumps rejects for argument 2.  *)
(***************************************************************************)
MaxSeqClears == 2

\* the results fn returns for argument a
SeqResults(a) == IF a = 2 THEN {JOpaque} ELSE {Compute(a), JNull}

NextClear ==
    \/ \E t \in Tasks, a \in Args :
          /\ Sum(callCount) < MaxSeqCalls /\ Quiescent /\ clr.pc = "idle"
          /\ WrapperCall(t, a)
    \/ \E t \in Tasks : WrapperGetReturn(t, "ok")
    \/ \E t \in Tasks : \E r \in SeqResults(inv[t].arg) : WrapperFnReturn(t, "return", r)
    \/ \E t \in Tasks : WrapperSetReturn(t, "ok")
    \/ GetCacheInfo
    \/ clears < MaxSeqClears /\ Quiescent /\ CacheClearCall
    \/ \E o \in {"ok", "raise"} : CacheClearReturn(o)

SpecClear == InitSeq /\ [][NextClear]_vars

(***************************************************************************)
(* The same sequential use, for every way of giving the timeout option.    *)
(***************************************************************************)
InitTtl ==
    /\ DefaultKeying
    /\ InitWrapper
    /\ cfgRedis \/ cfgUrl
    /\ store = [k \in Keys |-> Absent]
    /\ cfgTimeout \in TimeoutOptions
    /\ calc = NoCalc

SpecTtl == InitTtl /\ [][NextSeq]_vars

(***************************************************************************)
(* The same sequential use, for every way of giving the key and key_func   *)
(* options.                                                                *)
(***************************************************************************)
InitCompose ==
    /\ cfgKey \in KeyOptions
    /\ cfgKeyFunc \in BOOLEAN
    /\ InitWrapper
    /\ cfgRedis \/ cfgUrl
    /\ store = [k \in Keys |-> Absent]
    /\ cfgTimeout = OptOmitted
    /\ calc = NoCalc

SpecCompose == InitCompose /\ [][NextSeq]_vars

(***************************************************************************)
(* The same sequential use, with invocations whose key cannot be derived:  *)
(* an unhashable argument under the default key function, or an argument   *)
(* the custom key function raises for.                                     *)
(***************************************************************************)
\* the error _make_key raises for such an argument
KeyError == IF cfgKeyFunc THEN "KeyFuncError" ELSE "TypeError"

\* WrapperCallKeyError with the bug of _make_key inside the try block of the read:
\* the error is swallowed, a miss is counted and fn's result returned
WrapperCallKeyError_FailOpen(t) ==
    /\ inv[t].pc \in {"idle", "done"}
    /\ LET r == GetRedis IN
       /\ r.err = "none"
       /\ redisClient' = r.client
       /\ fromUrlCalls' = fromUrlCalls + r.made
       /\ inv' = [inv EXCEPT ![t] = [IdleInv EXCEPT !.pc = "done", !.client = r.client,
                                        !.read = "error", !.missInc = 1,
                                        !.fnCalls = 1, !.outcome = "returned"]]
    /\ misses' = misses + 1
    /\ UNCHANGED <<reg, thr, web, cfgRedis, cfgUrl, cfgTimeout, cfgKey, cfgKeyFunc, calc, store, cacheKeys, hits, currsize, clr,
                   callCount, fnCount, clears, loss>>

\* wrapper, lines 200-201, called with an argument _make_key raises for (it is none of
\* Args: arg stays 0): the client is resolved, then the error leaves the wrapper
WrapperCallKeyError(t) ==
    /\ inv[t].pc \in {"idle", "done"}
    /\ LET r == GetRedis IN
       /\ r.err = "none"
       /\ redisClient' = r.client
       /\ fromUrlCalls' = fromUrlCalls + r.made
       /\ inv' = [inv EXCEPT ![t] = [IdleInv EXCEPT !.pc = "done", !.client = r.client,
                                        !.outcome = "raised", !.err = KeyError]]
    /\ UNCHANGED <<reg, thr, web, cfgRedis, cfgUrl, cfgTimeout, cfgKey, cfgKeyFunc, calc, store, cacheKeys, hits, misses, currsize, clr,
                   callCount, fnCount, clears, loss>>

NextKeyError ==
    \/ \E t \in Tasks, a \in Args :
          Sum(callCount) < MaxSeqCalls /\ Quiescent /\ WrapperCall(t, a)
    \/ \E t \in Tasks : Quiescent /\ WrapperCallKeyError(t)
    \/ \E t \in Tasks : WrapperGetReturn(t, "ok")
    \/ \E t \in Tasks : WrapperFnReturn(t, "return", Compute(inv[t].arg))
    \/ \E t \in Tasks : WrapperSetReturn(t, "ok")
    \/ GetCacheInfo

SpecKeyError == InitCompose /\ [][NextKeyError]_vars

(***************************************************************************)
(* The helper functions on their own: the inputs are drawn at the start    *)
(* and one step applies the function to them.  The wrapper takes no step.  *)
(***************************************************************************)
wrapperVars == <<cfgRedis, cfgUrl, cfgTimeout, cfgKey, cfgKeyFunc, redisClient, fromUrlCalls, store,
                 cacheKeys, hits, misses, currsize, inv, clr, callCount, fnCount,
                 clears, loss>>

\* a wrapper over a supplied client and an empty store, not yet invoked
InitPure ==
    /\ DefaultKeying
    /\ InitWrapper
    /\ cfgRedis /\ ~cfgUrl
    /\ store = [k \in Keys |-> Absent]
    /\ cfgTimeout = OptOmitted

\* string hash seeds of a process run (PYTHONHASHSEED)
Seeds == {1, 2}

\* argument values: integers with negatives, booleans, strings
KeyArgVals == {JInt(-2), JInt(-1), JInt(0), JInt(1), JInt(2), JBool(FALSE), JBool(TRUE),
               JStr(<<>>), JStr(<<"a">>)}

\* calls: f(), f(v), f(x=v), and f(x=v, y=w), f(y=w, x=v) for v, w in 1..2
KeyCalls ==
    {Call(<<>>, <<>>)}
    \cup {Call(<<v>>, <<>>) : v \in KeyArgVals}
    \cup {Call(<<>>, <<KwArg("x", v)>>) : v \in KeyArgVals}
    \cup {Call(<<>>, <<KwArg("x", JInt(v)), KwArg("y", JInt(w))>>) : v, w \in 1..2}
    \cup {Call(<<>>, <<KwArg("y", JInt(w)), KwArg("x", JInt(v))>>) : v, w \in 1..2}

\* the two calls carry equal (args, kwargs): equal positional arguments in order and
\* equal keyword arguments as a mapping
SameCall(a, b) ==
    /\ Len(a.args) = Len(b.args)
    /\ \A i \in 1..Len(a.args) : PyEq(a.args[i], b.args[i])
    /\ Len(a.kw) = Len(b.kw)
    /\ \A i \in 1..Len(a.kw) :
          \E j \in 1..Len(b.kw) : /\ a.kw[i].name = b.kw[j].name
                                   /\ PyEq(a.kw[i].val, b.kw[j].val)

\* two calls of one callable in one process run, that is, under one hash seed
InitKey ==
    /\ InitPure
    /\ calc \in {[op |-> "key_in", seed |-> seed, a |-> a, b |-> b] :
                    seed \in Seeds, a \in KeyCalls, b \in KeyCalls}

\* derive the default keys of the two calls
KeyCalc ==
    /\ calc.op = "key_in"
    /\ calc' = [op |-> "key", seed |-> calc.seed, a |-> calc.a, b |-> calc.b,
                ka |-> DefaultKeyOf(calc.seed, calc.a),
                kb |-> DefaultKeyOf(calc.seed, calc.b)]
    /\ UNCHANGED <<wrapperVars, reg, thr, web>>

NextKey == KeyCalc

SpecKey == InitKey /\ [][NextKey]_vars

\* the characters of prefixes and base keys: a letter and the separator
KeyChars == {"a", ":"}
MaxPrefixLen == 2
MaxBaseLen == 3
\* the non-empty strings over KeyChars of at most n characters
StrsUpTo(n) == UNION {[1..l -> KeyChars] : l \in 1..n}

\* two wrappers on one store, each with a key prefix, and a base key of each
InitPrefix ==
    /\ InitPure
    /\ calc \in {[op |-> "prefix_in", p |-> p, q |-> q, ba |-> ba, bb |-> bb] :
                    p \in StrsUpTo(MaxPrefixLen), q \in StrsUpTo(MaxPrefixLen),
                    ba \in StrsUpTo(MaxBaseLen), bb \in StrsUpTo(MaxBaseLen)}

\* compose the full key of each wrapper
PrefixCalc ==
    /\ calc.op = "prefix_in"
    /\ calc' = [op |-> "prefix", p |-> calc.p, q |-> calc.q, ba |-> calc.ba,
                bb |-> calc.bb,
                ka |-> ComposeKey(KeyOpt(calc.p), calc.ba),
                kb |-> ComposeKey(KeyOpt(calc.q), calc.bb)]
    /\ UNCHANGED <<wrapperVars, reg, thr, web>>

NextPrefix == PrefixCalc

SpecPrefix == InitPrefix /\ [][NextPrefix]_vars

\* the characters of string values: a letter, the two characters JSON escapes, and
\* the item separator
CodecChars == {"a", "\"", "\\", ","}
MaxStrLen == 2
MaxListLen == 2
CodecStrs == UNION {[1..l -> CodecChars] : l \in 0..MaxStrLen}
CodecInts == {-10, -1, 0, 1, 2, 10}
DictKeys == {<<"a">>, <<"b">>}

\* the lists of at most MaxListLen items from S
ListsOf(S) == {JList(l) : l \in UNION {[1..n -> S] : n \in 0..MaxListLen}}

\* the mappings with keys from K and values from S, in every insertion order
DictsOf(K, S) ==
    {JDict(items) :
        items \in {it \in UNION {[1..n -> [k : K, v : S]] : n \in 0..Cardinality(K)} :
                      \A i, j \in 1..Len(it) : i # j => it[i].k # it[j].k}}

Scalars == {JNull, JBool(TRUE), JBool(FALSE)}
           \cup {JInt(i) : i \in CodecInts}
           \cup {JStr(str) : str \in CodecStrs}

\* the items of the containers: one value of each kind
Leaves == {JNull, JBool(TRUE), JInt(-1), JInt(10), JStr(<<>>), JStr(<<"a", "\"">>)}

\* the items of the containers of containers
Nested == {JInt(-1), JList(<<>>), JList(<<JInt(1)>>), JDict(<<>>),
           JDict(<<[k |-> <<"a">>, v |-> JInt(1)], [k |-> <<"b">>, v |-> JNull]>>),
           JDict(<<[k |-> <<"b">>, v |-> JNull], [k |-> <<"a">>, v |-> JInt(1)]>>)}

\* JSON-representable values: strings, integers, booleans, null, lists and
\* string-keyed mappings, nested two deep
JsonValues == Scalars \cup ListsOf(Leaves) \cup DictsOf(DictKeys, Leaves)
              \cup ListsOf(Nested) \cup DictsOf(DictKeys, Nested)

\* a value fn returned
InitCodec ==
    /\ InitPure
    /\ calc \in {[op |-> "codec_in", v |-> v] : v \in JsonValues}

\* _encode the value, then _decode the text
CodecCalc ==
    /\ calc.op = "codec_in"
    /\ LET encoded_value == Encode(calc.v) IN
       calc' = [op |-> "codec", v |-> calc.v, enc |-> encoded_value,
                ok |-> CanDecode(encoded_value), dec |-> Decode(encoded_value)]
    /\ UNCHANGED <<wrapperVars, reg, thr, web>>

NextCodec == CodecCalc

SpecCodec == InitCodec /\ [][NextCodec]_vars

\* keys whose order takes a comparison beyond the first character
SortKeys == {<<"a">>, <<"a", "b">>, <<"b">>}

\* mappings in every insertion order: flat ones, and ones inside mappings and lists
CanonValues ==
    LET Inner == DictsOf(DictKeys, {JInt(1)})
    IN DictsOf(SortKeys, {JInt(1)})
       \cup DictsOf(DictKeys, {JInt(1), JInt(2)})
       \cup DictsOf(DictKeys, {JNull} \cup Inner)
       \cup {JList(<<d>>) : d \in Inner}

\* two values
InitCanon ==
    /\ InitPure
    /\ calc \in {[op |-> "canon_in", v |-> v, w |-> w] :
                    v \in CanonValues, w \in CanonValues}

\* _encode both values, and _decode the text of the first
CanonCalc ==
    /\ calc.op = "canon_in"
    /\ calc' = [op |-> "canon", v |-> calc.v, w |-> calc.w,
                ev |-> Encode(calc.v), ew |-> Encode(calc.w),
                dv |-> Decode(Encode(calc.v))]
    /\ UNCHANGED <<wrapperVars, reg, thr, web>>

NextCanon == CanonCalc

SpecCanon == InitCanon /\ [][NextCanon]_vars

(***************************************************************************)
(* Two wrapped callables in one process.  async_redis_cache(...) returns a *)
(* decorator object; decorator(fn) makes the wrapper of fn.  The CacheInfo *)
(* objects and tracked-key sets of the process are kept by identity: a     *)
(* wrapper holds the index of the objects its closure refers to.  Both     *)
(* decorator objects have the same options and one reliable store;         *)
(* invocations run one at a time.                                          *)
(***************************************************************************)
MaxOwnCalls == 3

\* a wrapper with nothing done yet but the other variables' initial values
InitIdle ==
    /\ InitPure
    /\ calc = NoCalc

\* Decorate with the bug of creating cache_info and _cache_keys in async_redis_cache,
\* outside decorator(fn): wrappers made by one decorator object share them
Decorate_SharedPerDecorator(w, d, fn) ==
    /\ ~reg.wrap[w].made
    /\ IF \E u \in Wrappers : reg.wrap[u].made /\ reg.wrap[u].deco = d
       THEN LET u == CHOOSE u \in Wrappers : reg.wrap[u].made /\ reg.wrap[u].deco = d
            IN reg' = [reg EXCEPT !.wrap[w] = [made |-> TRUE, deco |-> d, fn |-> fn,
                                               info |-> reg.wrap[u].info,
                                               keys |-> reg.wrap[u].keys]]
       ELSE reg' = [reg EXCEPT
                      !.infos = Append(@, [hits |-> 0, misses |-> 0, currsize |-> 0]),
                      !.keysets = Append(@, {}),
                      !.wrap[w] = [made |-> TRUE, deco |-> d, fn |-> fn,
                                   info |-> Len(reg.infos) + 1,
                                   keys |-> Len(reg.keysets) + 1]]
    /\ UNCHANGED <<wrapperVars, calc, thr, web>>

\* decorator(fn), lines 165-175 and 262: a new CacheInfo, a new set, the wrapper
Decorate(w, d, fn) ==
    /\ ~reg.wrap[w].made
    /\ reg' = [reg EXCEPT
                 !.infos = Append(@, [hits |-> 0, misses |-> 0, currsize |-> 0]),
                 !.keysets = Append(@, {}),
                 !.wrap[w] = [made |-> TRUE, deco |-> d, fn |-> fn,
                              info |-> Len(reg.infos) + 1,
                              keys |-> Len(reg.keysets) + 1]]
    /\ UNCHANGED <<wrapperVars, calc, thr, web>>

\* wrapper, lines 199-235, run to its end against the reliable store: a hit counted
\* in the wrapper's cache_info, or a miss counted, the entry written, the key tracked
InvokeWrapper(w, a) ==
    /\ reg.wrap[w].made
    /\ reg.calls < MaxOwnCalls
    /\ LET k == <<reg.wrap[w].fn, a>>   \* module, qualified name, hash of the arguments
           i == reg.wrap[w].info
           j == reg.wrap[w].keys
       IN IF k \in reg.kv
          THEN reg' = [reg EXCEPT !.infos[i].hits = @ + 1, !.calls = @ + 1]
          ELSE reg' = [reg EXCEPT !.infos[i].misses = @ + 1, !.calls = @ + 1,
                                  !.kv = @ \cup {k}, !.keysets[j] = @ \cup {k}]
    /\ UNCHANGED <<wrapperVars, calc, thr, web>>

\* get_cache_info, lines 237-240, of wrapper w
InfoOfWrapper(w) ==
    /\ reg.wrap[w].made
    /\ reg' = [reg EXCEPT !.infos[reg.wrap[w].info].currsize =
                              Cardinality(reg.keysets[reg.wrap[w].keys])]
    /\ UNCHANGED <<wrapperVars, calc, thr, web>>

\* cache_clear, lines 245-260, of wrapper w, run to its end against the reliable store
ClearWrapper(w) ==
    /\ reg.wrap[w].made
    /\ LET i == reg.wrap[w].info
           j == reg.wrap[w].keys
       IN reg' = [reg EXCEPT !.kv = @ \ reg.keysets[j], !.keysets[j] = {},
                             !.infos[i].hits = 0, !.infos[i].misses = 0]
    /\ UNCHANGED <<wrapperVars, calc, thr, web>>

NextOwn ==
    \/ \E w \in Wrappers, d \in {"d1", "d2"}, fn \in {"f", "g"} : Decorate(w, d, fn)
    \/ \E w \in Wrappers, a \in Args : InvokeWrapper(w, a)
    \/ \E w \in Wrappers : InfoOfWrapper(w)
    \/ \E w \in Wrappers : ClearWrapper(w)

SpecOwn == InitIdle /\ [][NextOwn]_vars

(***************************************************************************)
(* LambdaThrottler.  Requests pass through acquire (mode "sync") or        *)
(* async_acquire (mode "async"); both semaphores count the slots of one    *)
(* key, at most max_concurrency at a time.  A Redis client or address is   *)
(* configured, so that creating the semaphore does not raise.              *)
(***************************************************************************)
MaxConcurrency == 2
Requests == {"r1", "r2"}
MUTATING_METHODS == {"POST", "PUT", "PATCH", "DELETE"}

\* LambdaThrottler.__init__ with max_concurrency n and mutating_sleep_seconds s
ThrottlerInit(n, s) ==
    /\ ~thr.made
    /\ thr' = [made |-> TRUE, max |-> n, sleep |-> s, held |-> {},
               req |-> [r \in Requests |->
                          [pc |-> "idle", method |-> "none", mode |-> "none",
                           slept |-> FALSE, raised |-> FALSE]]]
    /\ UNCHANGED <<wrapperVars, calc, reg, web>>

\* acquire / async_acquire entered for a request with this method: it waits for a slot
Acquire(r, method, mode) ==
    /\ thr.made
    /\ thr.req[r].pc \in {"idle", "done"}
    /\ thr' = [thr EXCEPT !.req[r] = [pc |-> "waiting", method |-> method, mode |-> mode,
                                      slept |-> FALSE, raised |-> FALSE]]
    /\ UNCHANGED <<wrapperVars, calc, reg, web>>

\* `with self.semaphore:` / `async with self.async_semaphore:` gets a slot; the body of
\* the caller's with statement, which sends the request, starts at the yield
SemaphoreEnter(r) ==
    /\ thr.made
    /\ thr.req[r].pc = "waiting"
    /\ Cardinality(thr.held) < thr.max
    /\ thr' = [thr EXCEPT !.held = @ \cup {r}, !.req[r].pc = "body"]
    /\ UNCHANGED <<wrapperVars, calc, reg, web>>

\* BodyEnd with the bug of sleeping inside the with block, before the slot is released
BodyEnd_SleepsInside(r, o) ==
    /\ thr.made
    /\ thr.req[r].pc = "body"
    /\ IF o = "raise"
       THEN thr' = [thr EXCEPT !.held = @ \ {r}, !.req[r].pc = "done",
                               !.req[r].raised = TRUE]
       ELSE IF thr.req[r].method \in MUTATING_METHODS /\ thr.sleep > 0
            THEN thr' = [thr EXCEPT !.req[r].pc = "sleeping"]
            ELSE thr' = [thr EXCEPT !.held = @ \ {r}, !.req[r].pc = "done"]
    /\ UNCHANGED <<wrapperVars, calc, reg, web>>

\* lines 108-116 and 127-135: the caller's body ends (o = "ok") or raises; the with
\* block releases the slot; an exception leaves the context manager there, otherwise
\* a mutating method with a positive mutating_sleep_seconds starts the sleep
BodyEnd(r, o) ==
    /\ thr.made
    /\ thr.req[r].pc = "body"
    /\ IF o = "raise"
       THEN thr' = [thr EXCEPT !.held = @ \ {r}, !.req[r].pc = "done",
                               !.req[r].raised = TRUE]
       ELSE IF thr.req[r].method \in MUTATING_METHODS /\ thr.sleep > 0
            THEN thr' = [thr EXCEPT !.held = @ \ {r}, !.req[r].pc = "sleeping"]
            ELSE thr' = [thr EXCEPT !.held = @ \ {r}, !.req[r].pc = "done"]
    /\ UNCHANGED <<wrapperVars, calc, reg, web>>

\* time.sleep / asyncio.sleep returns and the context manager ends
SleepEnd(r) ==
    /\ thr.made
    /\ thr.req[r].pc = "sleeping"
    /\ thr' = [thr EXCEPT !.req[r].pc = "done", !.req[r].slept = TRUE]
    /\ UNCHANGED <<wrapperVars, calc, reg, web>>

NextThrottle ==
    \/ \E n \in 1..MaxConcurrency, s \in {-1, 0, 1} : ThrottlerInit(n, s)
    \/ \E r \in Requests, method \in MUTATING_METHODS \cup {"GET"},
          mode \in {"sync", "async"} : Acquire(r, method, mode)
    \/ \E r \in Requests : SemaphoreEnter(r)
    \/ \E r \in Requests, o \in {"ok", "raise"} : BodyEnd(r, o)
    \/ \E r \in Requests : SleepEnd(r)

SpecThrottle == InitIdle /\ [][NextThrottle]_vars

(***************************************************************************)
(* GithubWebhookRouter serving POST requests on a route registered with    *)
(* add_webhook, one request at a time.  githubkit is installed.  A         *)
(* signature header is kept as what it was computed from: the algorithm    *)
(* prefix, the secret and the payload that were signed.                    *)
(***************************************************************************)
Secrets == {"correct-secret", "wrong-secret"}
Payloads == {"p1", "p2"}

\* the X-Hub-Signature-256 header GitHub sends: "sha256=" and the HMAC of the payload
Sign(secret, payload) == [alg |-> "sha256", secret |-> secret, payload |-> payload]

\* a request without the header, and the headers a client may send: a signature made
\* with either secret over either payload, with the sha256= or sha1= prefix or with
\* no prefix, or an empty string
NoHeader == [alg |-> "missing", secret |-> "-", payload |-> "-"]
Signatures ==
    {[alg |-> a, secret |-> x, payload |-> p] :
        a \in {"sha256", "sha1", "noprefix"}, x \in Secrets, p \in Payloads}
    \cup {[alg |-> "empty", secret |-> "-", payload |-> "-"], NoHeader}

\* githubkit.webhooks.verify: the header equals the signature of the payload
Verify(secret, payload, signature) == signature = Sign(secret, payload)

\* GithubWebhookRouter.__init__ with this webhook_secret
RouterInit(secret) ==
    /\ ~web.made
    /\ web' = [made |-> TRUE, secret |-> secret, route |-> FALSE,
               req |-> [pc |-> "idle", payload |-> "-", sig |-> NoHeader, evt |-> FALSE,
                        validatorCalls |-> 0, parseCalls |-> 0, handlerCalls |-> 0,
                        status |-> 0, detail |-> "-"]]
    /\ UNCHANGED <<wrapperVars, calc, reg, thr>>

\* add_webhook(path)(func): the handler is registered as a POST route whose first
\* parameter depends on the parser
AddWebhook ==
    /\ web.made
    /\ ~web.route
    /\ web' = [web EXCEPT !.route = TRUE]
    /\ UNCHANGED <<wrapperVars, calc, reg, thr>>

\* a POST to the route arrives: its body, its X-Hub-Signature-256 header and whether
\* it has an X-GitHub-Event header
WebRequest(payload, signature, evt) ==
    /\ web.made
    /\ web.route
    /\ web.req.pc \in {"idle", "done"}
    /\ web' = [web EXCEPT !.req = [pc |-> "validate", payload |-> payload,
                                   sig |-> signature, evt |-> evt,
                                   validatorCalls |-> 0, parseCalls |-> 0,
                                   handlerCalls |-> 0, status |-> 0, detail |-> "-"]]
    /\ UNCHANGED <<wrapperVars, calc, reg, thr>>

\* Validate with the bug of ignoring the result of verify
Validate_IgnoresVerify ==
    /\ web.made
    /\ web.req.pc = "validate"
    /\ IF web.req.sig = NoHeader
       THEN web' = [web EXCEPT !.req.pc = "done", !.req.status = 422]
       ELSE web' = [web EXCEPT !.req.pc = "parse", !.req.validatorCalls = @ + 1]
    /\ UNCHANGED <<wrapperVars, calc, reg, thr>>

\* the Security(validator) dependency is solved first: without the required header
\* the request fails validation (422) and the validator is not called; otherwise
\* GithubWebhookValidator.__call__, lines 57-64
Validate ==
    /\ web.made
    /\ web.req.pc = "validate"
    /\ IF web.req.sig = NoHeader
       THEN web' = [web EXCEPT !.req.pc = "done", !.req.status = 422]
       ELSE IF ~Verify(web.secret, web.req.payload, web.req.sig)
            THEN web' = [web EXCEPT !.req.pc = "done", !.req.validatorCalls = @ + 1,
                                    !.req.status = 401,
                                    !.req.detail = "Invalid signature"]
            ELSE web' = [web EXCEPT !.req.pc = "parse", !.req.validatorCalls = @ + 1]
    /\ UNCHANGED <<wrapperVars, calc, reg, thr>>

\* _parse, lines 104-109, as the router's dependency and then as the dependency of
\* the handler's first parameter, each given the validator's cached result: without
\* the X-GitHub-Event header 422; otherwise parse_obj returns (o = "ok") or raises
Parse(o) ==
    /\ web.made
    /\ web.req.pc = "parse"
    /\ IF ~web.req.evt
       THEN web' = [web EXCEPT !.req.pc = "done", !.req.status = 422]
       ELSE IF o = "raise"
            THEN web' = [web EXCEPT !.req.pc = "done", !.req.parseCalls = @ + 1,
                                    !.req.status = 500]
            ELSE web' = [web EXCEPT !.req.parseCalls = @ + 1,
                                    !.req.pc = IF web.req.parseCalls = 1 THEN "handle"
                                               ELSE "parse"]
    /\ UNCHANGED <<wrapperVars, calc, reg, thr>>

\* add_webhook's wrapper, lines 205-210: the handler runs with the parsed event
Handle(o) ==
    /\ web.made
    /\ web.req.pc = "handle"
    /\ web' = [web EXCEPT !.req.pc = "done", !.req.handlerCalls = @ + 1,
                          !.req.status = IF o = "ok" THEN 200 ELSE 500]
    /\ UNCHANGED <<wrapperVars, calc, reg, thr>>

NextWeb ==
    \/ \E secret \in Secrets : RouterInit(secret)
    \/ AddWebhook
    \/ \E p \in Payloads, sig \in Signatures, evt \in BOOLEAN : WebRequest(p, sig, evt)
    \/ Validate
    \/ \E o \in {"ok", "raise"} : Parse(o)
    \/ \E o \in {"ok", "raise"} : Handle(o)

SpecWeb == InitIdle /\ [][NextWeb]_vars

(***************************************************************************)
(* The steps of an invocation, as seen in one transition.                  *)
(***************************************************************************)
\* task t's client.get completes in this step
ReadCompletes(t) == inv[t].pc = "get" /\ inv'[t].pc \notin {"get", "cancelled"}
\* task t's fn completes in this step
FnCompletes(t) == inv[t].pc = "fn" /\ inv'[t].pc \notin {"fn", "cancelled"}
\* task t's client.set completes in this step
WriteCompletes(t) == inv[t].pc = "set" /\ inv'[t].pc \notin {"set", "cancelled"}
\* the entry task t's read finds under its key
Found(t) == store[inv[t].key]

(***************************************************************************)
(* C1. Hit suppresses computation: when the store read of an invocation    *)
(* returns a present value that decodes, the wrapper returns the decoded   *)
(* stored value in that very step, fn is not started, no store write is    *)
(* issued, the store and the tracked-key set stay as they are, hits grows  *)
(* by exactly 1 and misses is unchanged.                                   *)
(***************************************************************************)
C1_HitSuppressesComputation ==
    [][\A t \in Tasks :
          (/\ ReadCompletes(t)
           /\ inv'[t].read # "error"
           /\ Found(t).present
           /\ CanDecode(Found(t).val))
          => /\ inv'[t].pc = "done"
             /\ inv'[t].outcome = "returned"
             /\ inv'[t].ret = Decode(Found(t).val)
             /\ inv'[t].fnCalls = 0
             /\ fnCount' = fnCount
             /\ inv'[t].writes = 0
             /\ store' = store
             /\ cacheKeys' = cacheKeys
             /\ ~inv'[t].tracked
             /\ hits' = hits + 1
             /\ inv'[t].hitsInc = 1
             /\ misses' = misses
             /\ inv'[t].missInc = 0]_vars

\* an invocation returned the value another process had stored, not fn's
C1_Witness ==
    \E t \in Tasks : /\ inv[t].pc = "done"
                     /\ inv[t].read = "hit"
                     /\ inv[t].ret = Foreign
                     /\ inv[t].ret # Compute(inv[t].arg)
                     /\ hits >= 1

\* what an invocation that went down the miss path holds and has done
MissRecord(r) ==
    /\ r.fnCalls = 1
    /\ r.fnArg = r.arg
    /\ r.missInc = 1
    /\ r.key = MakeKey(r.arg)
    /\ r.reads = 1
    /\ (r.pc = "fn" => r.writes = 0)
    /\ (r.pc = "set" => r.writes = 1 /\ r.wval = Encode(r.result))
    /\ (r.pc = "done" /\ r.fnOut = "returned"
           => /\ r.outcome = "returned"
              /\ r.ret = r.result
              /\ (CanEncode(r.result) => r.writes = 1 /\ r.wval = Encode(r.result)))

(***************************************************************************)
(* C2. Miss triggers write: when the store read of an invocation returns   *)
(* absent, fn is started exactly once with the caller's argument and       *)
(* misses grows by exactly 1 (hits does not); when fn returns, the wrapper *)
(* returns fn's result and, the result being encodable, has issued exactly *)
(* one store write, for the derived key and carrying the encoded result;   *)
(* when that write succeeds the store holds the entry and the key is in    *)
(* the tracked-key set.                                                    *)
(***************************************************************************)
C2_MissTriggersWrite ==
    /\ [](\A t \in Tasks : inv[t].read = "absent" => MissRecord(inv[t]) /\ inv[t].hitsInc = 0)
    /\ [][\A t \in Tasks :
             /\ (ReadCompletes(t) /\ inv'[t].read # "error" /\ ~Found(t).present)
                => /\ inv'[t].read = "absent"
                   /\ inv'[t].pc = "fn"
                   /\ misses' = misses + 1
                   /\ hits' = hits
                   /\ fnCount' = [fnCount EXCEPT ![inv[t].arg] = @ + 1]
             /\ (WriteCompletes(t) /\ inv'[t].wrote)
                => /\ store'[inv[t].key] = Entry(Encode(inv[t].result))
                   /\ inv[t].key \in cacheKeys'
                   /\ inv'[t].ret = inv[t].result]_vars

\* a miss on an absent key was computed, written and tracked
C2_Witness ==
    \E t \in Tasks : /\ inv[t].pc = "done"
                     /\ inv[t].read = "absent"
                     /\ inv[t].wrote
                     /\ inv[t].ret = Compute(inv[t].arg)
                     /\ store[inv[t].key] = Entry(Encode(Compute(inv[t].arg)))
                     /\ inv[t].key \in cacheKeys

\* the wrapper was invoked n times with argument a, with no other argument, and
\* every invocation has ended
OnlyCalled(a, n) == /\ callCount[a] = n
                    /\ \A b \in Args \ {a} : callCount[b] = 0
                    /\ Quiescent

(***************************************************************************)
(* C3. Read-through scenario (under SpecSeq): fn is started at most once   *)
(* per distinct argument; after one invocation with argument a the result  *)
(* is fn's and misses = 1, hits = 0; after two invocations with the same   *)
(* argument fn ran once, the second returned an equal value, hits = 1 and  *)
(* misses is still 1.  A hit always returns what fn computes for the       *)
(* argument.                                                               *)
(***************************************************************************)
C3_ReadThroughScenario ==
    /\ \A a \in Args : fnCount[a] <= 1
    /\ \A t \in Tasks : inv[t].pc = "done" =>
          /\ inv[t].outcome = "returned"
          /\ inv[t].ret = Compute(inv[t].arg)
          /\ inv[t].read \in {"absent", "hit"}
    /\ \A a \in Args :
          /\ OnlyCalled(a, 1) => hits = 0 /\ misses = 1 /\ fnCount[a] = 1
          /\ OnlyCalled(a, 2) =>
                /\ hits = 1 /\ misses = 1 /\ fnCount[a] = 1
                /\ \E t \in Tasks : inv[t].pc = "done" /\ inv[t].read = "hit"

\* two invocations with one argument ran one after the other: a miss, then a hit
C3_Witness ==
    /\ OnlyCalled(1, 2)
    /\ inv["t1"].pc = "done" /\ inv["t1"].read = "absent"
    /\ inv["t2"].pc = "done" /\ inv["t2"].read = "hit"
    /\ inv["t2"].ret = inv["t1"].ret
    /\ hits = 1 /\ misses = 1

(***************************************************************************)
(* C4. Fail-open on read error: when the store read of an invocation       *)
(* raises, the error is not propagated; the invocation goes on as for an   *)
(* absent key: misses grows by 1 (hits does not), fn is started, its       *)
(* result is returned and the store write is still issued.                 *)
(***************************************************************************)
C4_FailOpenOnReadError ==
    /\ [](\A t \in Tasks : inv[t].read = "error" =>
             /\ MissRecord(inv[t])
             /\ inv[t].hitsInc = 0
             /\ inv[t].err \in {"none", "FnError", "CancelledError"})
    /\ [][\A t \in Tasks :
             (ReadCompletes(t) /\ inv'[t].read = "error")
             => /\ inv'[t].pc = "fn"
                /\ inv'[t].outcome = "none"
                /\ misses' = misses + 1
                /\ hits' = hits
                /\ fnCount' = [fnCount EXCEPT ![inv[t].arg] = @ + 1]]_vars

\* an invocation whose read raised returned fn's result and wrote it
C4_Witness ==
    \E t \in Tasks : /\ inv[t].pc = "done"
                     /\ inv[t].read = "error"
                     /\ inv[t].outcome = "returned"
                     /\ inv[t].ret = Compute(inv[t].arg)
                     /\ inv[t].writes = 1
                     /\ inv[t].wrote

(***************************************************************************)
(* C5. Undecodable stored value: when the store read returns a present     *)
(* value that does not decode, the invocation does not raise and is        *)
(* handled exactly as after a store read error: counted as a miss only,    *)
(* fn started, its result returned, the entry overwritten.                 *)
(***************************************************************************)
C5_UndecodableAsReadError ==
    \A t \in Tasks : inv[t].read = "corrupt" =>
        /\ MissRecord(inv[t])
        /\ inv[t].hitsInc = 0
        /\ inv[t].err \in {"none", "FnError"}

(***************************************************************************)
(* C6. Write failure is swallowed: when the store write of an invocation   *)
(* raises, the invocation returns fn's result without raising, the key is  *)
(* not added to the tracked-key set, and currsize (the field, and the      *)
(* size statistics would report) is unchanged.                             *)
(***************************************************************************)
C6_WriteFailureSwallowed ==
    [][\A t \in Tasks :
          (WriteCompletes(t) /\ ~inv'[t].wrote)
          => /\ inv'[t].pc = "done"
             /\ inv'[t].outcome = "returned"
             /\ inv'[t].err = "none"
             /\ inv'[t].ret = inv[t].result
             /\ cacheKeys' = cacheKeys
             /\ ~inv'[t].tracked
             /\ currsize' = currsize
             /\ Cardinality(cacheKeys') = Cardinality(cacheKeys)]_vars

\* an invocation whose write raised returned fn's result; its key is not tracked
C6_Witness ==
    \E t \in Tasks : /\ inv[t].pc = "done"
                     /\ inv[t].writes = 1
                     /\ ~inv[t].wrote
                     /\ inv[t].outcome = "returned"
                     /\ inv[t].ret = Compute(inv[t].arg)
                     /\ inv[t].key \notin cacheKeys

(***************************************************************************)
(* C7. Wrapped callable error: when fn raises, its error reaches the       *)
(* caller as it is, no store write is issued for the invocation, the key   *)
(* is not tracked, and misses was incremented by 1 when fn was started,    *)
(* not when it ended.                                                      *)
(***************************************************************************)
C7_CallableErrorPropagates ==
    /\ [](\A t \in Tasks : inv[t].pc = "fn" => inv[t].missInc = 1)
    /\ [][\A t \in Tasks :
             (FnCompletes(t) /\ inv'[t].fnOut = "raised")
             => /\ inv'[t].pc = "done"
                /\ inv'[t].outcome = "raised"
                /\ inv'[t].err = "FnError"
                /\ inv'[t].writes = 0
                /\ ~inv'[t].tracked
                /\ store' = store
                /\ cacheKeys' = cacheKeys
                /\ inv'[t].missInc = 1
                /\ misses' = misses]_vars

\* fn raised in an invocation that had been counted as a miss and wrote nothing
C7_Witness ==
    \E t \in Tasks : /\ inv[t].pc = "done"
                     /\ inv[t].fnOut = "raised"
                     /\ inv[t].err = "FnError"
                     /\ inv[t].missInc = 1
                     /\ misses >= 1
                     /\ store[inv[t].key] = Absent

(***************************************************************************)
(* C8. Availability policy: with a store configured, an invocation raises  *)
(* only when fn raised; an invocation whose fn returned returns fn's       *)
(* result, an invocation that did not start fn returns the stored value;   *)
(* this under every store fault (read raises, stored value undecodable,    *)
(* write raises); and cache_clear never raises, also when the bulk delete  *)
(* raises.                                                                 *)
(***************************************************************************)
C8_AvailabilityPolicy ==
    (cfgRedis \/ cfgUrl) =>
        /\ \A t \in Tasks :
              /\ inv[t].outcome = "raised" => inv[t].fnOut = "raised"
              /\ (inv[t].pc = "done" /\ inv[t].fnOut = "returned")
                    => inv[t].outcome = "returned" /\ inv[t].ret = inv[t].result
              /\ (inv[t].pc = "done" /\ inv[t].fnOut = "none")
                    => inv[t].outcome = "returned" /\ inv[t].read = "hit"
        /\ clr.outcome # "raised"
        /\ (clr.delRaised => clr.outcome = "returned")

\* read fault and write fault in one invocation, which returned; the delete raised too
C8_Witness ==
    /\ \E t \in Tasks : /\ inv[t].pc = "done"
                        /\ inv[t].read \in {"error", "corrupt"}
                        /\ inv[t].writes = 1
                        /\ ~inv[t].wrote
                        /\ inv[t].outcome = "returned"
                        /\ inv[t].ret = Compute(inv[t].arg)
    /\ clr.delRaised
    /\ clr.outcome = "returned"

(***************************************************************************)
(* C9. Configuration error is propagated: with neither a client nor an     *)
(* address, every invocation raises ValueError before it derives a key,    *)
(* reads the store or starts fn; hits, misses and the tracked-key set stay *)
(* as they were.                                                           *)
(***************************************************************************)
C9_ConfigurationErrorPropagated ==
    (~cfgRedis /\ ~cfgUrl) =>
        /\ \A t \in Tasks :
              /\ inv[t].pc \in {"idle", "done"}
              /\ inv[t].pc = "done" =>
                    /\ inv[t].outcome = "raised"
                    /\ inv[t].err = "ValueError"
                    /\ inv[t].key = <<>>
                    /\ inv[t].reads = 0
                    /\ inv[t].fnCalls = 0
                    /\ inv[t].writes = 0
        /\ hits = 0
        /\ misses = 0
        /\ cacheKeys = {}
        /\ \A a \in Args : fnCount[a] = 0
        /\ redisClient = NoClient

\* an invocation on a wrapper with no store ended in ValueError
C9_Witness ==
    /\ ~cfgRedis /\ ~cfgUrl
    /\ \E t \in Tasks : /\ inv[t].pc = "done"
                        /\ inv[t].err = "ValueError"
                        /\ callCount[inv[t].arg] >= 1

\* task t is suspended at an await of the wrapper
InFlight(t) == inv[t].pc \in {"get", "fn", "set"}

(***************************************************************************)
(* C10. Lazy store binding: no client is built before the first operation  *)
(* that needs the store; from the address a client is built at that        *)
(* operation and at most once, also with several invocations in flight;    *)
(* every operation uses that one client, which never changes afterwards;   *)
(* a supplied client is the one used and none is ever built from the       *)
(* address.                                                                *)
(***************************************************************************)
C10_LazyStoreBinding ==
    /\ [](/\ fromUrlCalls <= 1
          /\ (Sum(callCount) = 0 /\ clears = 0) =>
                /\ fromUrlCalls = 0
                /\ (~cfgRedis => redisClient = NoClient)
          /\ cfgRedis => fromUrlCalls = 0 /\ redisClient = SuppliedClient
          /\ (~cfgRedis /\ cfgUrl /\ Sum(callCount) >= 1) =>
                fromUrlCalls = 1 /\ redisClient = UrlClient(1)
          /\ \A t \in Tasks : inv[t].reads = 1 => inv[t].client = redisClient
          /\ clr.deletes = 1 => clr.client = redisClient)
    /\ [][redisClient # NoClient => redisClient' = redisClient]_vars

\* two first invocations are in flight on a wrapper built from the address
C10_Witness ==
    /\ ~cfgRedis /\ cfgUrl
    /\ \A t \in Tasks : InFlight(t) /\ inv[t].client = UrlClient(1)
    /\ fromUrlCalls = 1

(***************************************************************************)
(* C11. Counter invariant: on a wrapper with a store configured and no     *)
(* cache_clear called, once every invocation made has ended, hits + misses *)
(* equals the number of invocations made, whatever the store did (hits,    *)
(* absences, read errors, undecodable values, write errors).               *)
(***************************************************************************)
C11_CounterInvariant ==
    ((cfgRedis \/ cfgUrl) /\ clears = 0 /\ Quiescent)
        => hits + misses = Sum(callCount)

(***************************************************************************)
(* C12. Meaning of hits and misses: an invocation increments hits only if  *)
(* it is satisfied from the store without starting fn, increments misses   *)
(* only if it starts fn, and never increments both.                        *)
(***************************************************************************)
C12_MeaningOfHitsAndMisses ==
    \A t \in Tasks :
        /\ inv[t].hitsInc = 1 => inv[t].fnCalls = 0 /\ inv[t].read = "hit"
        /\ inv[t].missInc = 1 => inv[t].fnCalls = 1
        /\ ~(inv[t].hitsInc = 1 /\ inv[t].missInc = 1)

(***************************************************************************)
(* C13. Invalidation deletes tracked keys: a cache_clear call that finds   *)
(* the tracked-key set non-empty issues one client.delete whose arguments  *)
(* are exactly the tracked keys; one that finds it empty issues no store   *)
(* operation and resolves no client; a call never issues a second delete.  *)
(* When the delete succeeds with no invocation in flight, the store holds  *)
(* none of the keys that were tracked.                                     *)
(***************************************************************************)
C13_InvalidationDeletesTrackedKeys ==
    [][/\ clears' = clears + 1
          => IF cacheKeys # {}
             THEN /\ clr'.pc = "delete"
                  /\ clr'.deletes = 1
                  /\ clr'.keys = cacheKeys
             ELSE /\ clr'.pc = "idle"
                  /\ clr'.deletes = 0
                  /\ store' = store
                  /\ redisClient' = redisClient
                  /\ fromUrlCalls' = fromUrlCalls
       /\ clr'.deletes <= 1
       /\ clr.pc = "delete" => clr'.deletes = clr.deletes /\ clr'.keys = clr.keys
       /\ (clr.pc = "delete" /\ clr'.pc = "idle" /\ ~clr'.delRaised /\ Quiescent)
          => \A k \in clr.keys : ~store'[k].present]_vars

C13_Witness ==
    /\ clr.outcome = "returned"
    /\ clr.deletes = 1
    /\ ~clr.delRaised
    /\ Cardinality(clr.keys) = 2
    /\ Quiescent
    /\ \A k \in clr.keys : ~store[k].present

\* cache_clear returns in this step: at once, or when its client.delete ended
ClearReturns ==
    \/ clears' = clears + 1 /\ clr'.pc = "idle"
    \/ clr.pc = "delete" /\ clr'.pc = "idle"

(***************************************************************************)
(* C14. Invalidation resets local state unconditionally: in the step in    *)
(* which cache_clear returns, whether its delete succeeded, raised or was  *)
(* not issued, it returns normally, the tracked-key set is empty, hits and *)
(* misses are 0, and the size get_cache_info computes from the set is 0.   *)
(***************************************************************************)
C14_InvalidationResetsLocalState ==
    [][ClearReturns
          => /\ clr'.outcome = "returned"
             /\ cacheKeys' = {}
             /\ hits' = 0
             /\ misses' = 0
             /\ Cardinality(cacheKeys') = 0]_vars

C14_Witness ==
    /\ clr.outcome = "returned"
    /\ clr.delRaised
    /\ clr.keys # {}
    /\ \E k \in clr.keys : store[k].present
    /\ Sum(callCount) = MaxCalls
    /\ cacheKeys = {}
    /\ hits = 0
    /\ misses = 0

(***************************************************************************)
(* C15. Statistics accessor is read-only: a get_cache_info call leaves     *)
(* hits, misses, the tracked-key set and the store as they are, starts no  *)
(* store operation and resolves no client; the currsize it reports is the  *)
(* cardinality of the tracked-key set at the call.  (The only thing a call *)
(* may change is the currsize field, so every step that changes currsize   *)
(* is checked.)                                                            *)
(***************************************************************************)
C15_StatisticsReadOnly ==
    [][currsize' # currsize
          => /\ currsize' = Cardinality(cacheKeys)
             /\ InfoValues' = [hits |-> hits, misses |-> misses,
                               currsize |-> Cardinality(cacheKeys)]
             /\ UNCHANGED <<hits, misses, cacheKeys, store, inv, clr, redisClient,
                            fromUrlCalls>>]_vars

\* a reported size of 2 with two keys tracked, after hits or misses were counted
C15_Witness ==
    /\ currsize = 2
    /\ Cardinality(cacheKeys) = 2
    /\ misses = 2

\* cache_info.currsize is 0 in a new CacheInfo and only get_cache_info assigns it:
\* when it is not 0, a caller holds a result that get_cache_info returned
InfoReturned == currsize # 0

(***************************************************************************)
(* C16. Statistics is a point-in-time snapshot: once get_cache_info has    *)
(* returned a result, the hits, misses and currsize read through that      *)
(* result never change, whatever invocation, cache_clear or get_cache_info *)
(* call comes later.                                                       *)
(***************************************************************************)
C16_PointInTimeSnapshot ==
    [][InfoReturned => InfoValues' = InfoValues]_vars

\* the number of distinct arguments the wrapper was invoked with so far
Distinct == Cardinality({a \in Args : callCount[a] > 0})

\* no invocation was cancelled
NoCancel == \A t \in Tasks : inv[t].pc # "cancelled"

(***************************************************************************)
(* C17 as claimed. currsize bound: on a wrapper with a store configured    *)
(* and no cache_clear called, the size get_cache_info reports is at most   *)
(* the number of distinct arguments invoked so far, and once the           *)
(* invocations have ended (none cancelled) it equals that number when the  *)
(* store started empty and no store write raised.                          *)
(***************************************************************************)
C17_CurrsizeBound_AsClaimed ==
    ((cfgRedis \/ cfgUrl) /\ clears = 0) =>
        /\ Cardinality(cacheKeys) <= Distinct
        /\ currsize <= Distinct
        /\ (Quiescent /\ NoCancel /\ loss # "store")
              => Cardinality(cacheKeys) = Distinct

(***************************************************************************)
(* C17. currsize bound: on a wrapper with a store configured and no        *)
(* cache_clear called, the size get_cache_info reports is at most the      *)
(* number of distinct arguments invoked so far; once the invocations have  *)
(* ended (none cancelled) it equals that number when the store started     *)
(* empty, every invocation's fn returned an encodable result and no store  *)
(* write raised.                                                           *)
(***************************************************************************)
C17_CurrsizeBound ==
    ((cfgRedis \/ cfgUrl) /\ clears = 0) =>
        /\ Cardinality(cacheKeys) <= Distinct
        /\ currsize <= Distinct
        /\ (Quiescent /\ NoCancel /\ loss = "none")
              => Cardinality(cacheKeys) = Distinct

\* two distinct arguments invoked and written, and a size of 2 reported
C17_Witness ==
    /\ clears = 0
    /\ Quiescent
    /\ loss = "none"
    /\ Distinct = 2
    /\ Cardinality(cacheKeys) = 2
    /\ currsize = 2

(***************************************************************************)
(* C18. Per-invocation ordering: an invocation issues at most one store    *)
(* read and at most one store write and starts fn at most once; fn is      *)
(* started only after the read has completed, the write is issued only     *)
(* after fn has returned, and never without the read and fn before it.     *)
(***************************************************************************)
C18_PerInvocationOrdering ==
    \A t \in Tasks :
        LET r == inv[t] IN
        /\ r.reads <= 1 /\ r.fnCalls <= 1 /\ r.writes <= 1
        /\ r.pc = "get" => r.reads = 1 /\ r.read = "none" /\ r.fnCalls = 0 /\ r.writes = 0
        /\ r.pc = "fn" => r.fnCalls = 1 /\ r.fnOut = "none" /\ r.writes = 0
        /\ r.pc = "set" => r.writes = 1 /\ ~r.wrote
        /\ r.fnCalls = 1 => r.reads = 1 /\ r.read \in {"absent", "error", "corrupt"}
        /\ r.writes = 1 => r.reads = 1 /\ r.fnCalls = 1 /\ r.fnOut = "returned"
        /\ r.wrote => r.writes = 1

\* a write is awaited, after a read that raised and an fn that returned
C18_Witness ==
    \E t \in Tasks : /\ inv[t].pc = "set"
                     /\ inv[t].reads = 1
                     /\ inv[t].read = "error"
                     /\ inv[t].fnCalls = 1
                     /\ inv[t].fnOut = "returned"
                     /\ inv[t].writes = 1

\* t and u are two invocations for one key that both read it as absent
BothMissed(t, u) ==
    /\ t # u
    /\ inv[t].key = inv[u].key
    /\ inv[t].read = "absent"
    /\ inv[u].read = "absent"

(***************************************************************************)
(* C19. No mutual exclusion across identical keys: an invocation that      *)
(* reads its key as absent while another invocation for the same key has   *)
(* read it as absent and has not completed its write starts fn all the     *)
(* same, so that fn has then been started twice for that key; two          *)
(* invocations that both read the key as absent each start fn, each issue  *)
(* a store write when fn returns an encodable result, each return fn's     *)
(* result, and when both writes succeeded (no cache_clear called) the      *)
(* tracked-key set holds the key, once.                                    *)
(***************************************************************************)
C19_NoMutualExclusion ==
    /\ [][\A t, u \in Tasks :
             (/\ t # u
              /\ ReadCompletes(t)
              /\ inv'[t].read = "absent"
              /\ inv[u].key = inv[t].key
              /\ inv[u].read = "absent"
              /\ inv[u].pc \in {"fn", "set"})
             => /\ inv'[t].pc = "fn"
                /\ inv'[t].fnCalls = 1
                /\ fnCount'[inv[t].arg] = fnCount[inv[t].arg] + 1
                /\ fnCount'[inv[t].arg] >= 2]_vars
    /\ [](\A t, u \in Tasks :
             BothMissed(t, u) =>
                /\ inv[t].fnCalls = 1 /\ inv[u].fnCalls = 1
                /\ fnCount[inv[t].arg] >= 2
                /\ (inv[t].pc = "done" /\ inv[t].fnOut = "returned")
                      => /\ inv[t].outcome = "returned"
                         /\ inv[t].ret = inv[t].result
                         /\ (CanEncode(inv[t].result) => inv[t].writes = 1)
                /\ (inv[t].wrote /\ inv[u].wrote /\ clears = 0)
                      => /\ inv[t].key \in cacheKeys
                         /\ Cardinality({k \in cacheKeys : k = inv[t].key}) = 1)

\* two invocations for one key overlapped: both read it absent, both ran fn, both
\* wrote and returned fn's result; the key is tracked once
C19_Witness ==
    /\ clears = 0
    /\ BothMissed("t1", "t2")
    /\ \A t \in Tasks : /\ inv[t].pc = "done"
                        /\ inv[t].wrote
                        /\ inv[t].outcome = "returned"
                        /\ inv[t].ret = Compute(inv[t].arg)
    /\ fnCount[inv["t1"].arg] = 2
    /\ cacheKeys = {inv["t1"].key}
    /\ hits = 0 /\ misses = 2

\* task t is cancelled in this step while it awaits client.get or fn
CancelledBeforeWrite(t) ==
    inv[t].cancelledAt = "none" /\ inv'[t].cancelledAt \in {"get", "fn"}

(***************************************************************************)
(* C20. Cancellation before the write: an invocation cancelled while it    *)
(* awaits the store read or fn ends there with the cancellation, which no  *)
(* handler of the wrapper swallows; it has issued no store write and has   *)
(* added no key to the tracked-key set, and never does; the step of the    *)
(* cancellation leaves the store, the tracked-key set and the counters as  *)
(* they are.                                                               *)
(***************************************************************************)
C20_CancellationBeforeWrite ==
    /\ [](\A t \in Tasks :
             inv[t].cancelledAt \in {"get", "fn"} =>
                /\ inv[t].pc = "cancelled"
                /\ inv[t].outcome = "cancelled"
                /\ inv[t].err = "CancelledError"
                /\ inv[t].writes = 0
                /\ ~inv[t].wrote
                /\ ~inv[t].tracked
                /\ inv[t].cancelledAt = "get" => inv[t].fnCalls = 0 /\ inv[t].missInc = 0)
    /\ [][\A t \in Tasks :
             CancelledBeforeWrite(t)
             => /\ inv'[t].pc = "cancelled"
                /\ cacheKeys' = cacheKeys
                /\ store' = store
                /\ hits' = hits
                /\ misses' = misses]_vars

\* one invocation was cancelled at its read and one at fn; nothing written or tracked
C20_Witness ==
    /\ inv["t1"].cancelledAt = "get"
    /\ inv["t2"].cancelledAt = "fn"
    /\ \A t \in Tasks : inv[t].pc = "cancelled" /\ inv[t].writes = 0
    /\ cacheKeys = {}
    /\ \A t \in Tasks : ~store[inv[t].key].present

C22_TtlPropagation ==
    \A t \in Tasks :
        inv[t].writes = 1 =>
            /\ (cfgTimeout.given /\ ~cfgTimeout.none)
                  => inv[t].wex = [has |-> TRUE, secs |-> cfgTimeout.secs]
            /\ (cfgTimeout.given /\ cfgTimeout.none) => inv[t].wex = NoExpiry

\* a write issued and completed under timeout = 3600 carried ex = 3600
C22_Witness ==
    /\ cfgTimeout = OptSecs(TestTimeout)
    /\ \E t \in Tasks : /\ inv[t].wrote
                        /\ inv[t].wex.has
                        /\ inv[t].wex.secs = TestTimeout

(***************************************************************************)
(* C23. Absent ttl option: on a wrapper decorated without a timeout        *)
(* option, every client.set is issued without ex, as with timeout = None.  *)
(***************************************************************************)
C23_AbsentTtlIsNoExpiry ==
    ~cfgTimeout.given => \A t \in Tasks : inv[t].writes = 1 => inv[t].wex = NoExpiry

(***************************************************************************)
(* C24. Documented default TTL: on a wrapper decorated without a timeout   *)
(* option, every client.set is issued with ex = 604800, one week.          *)
(***************************************************************************)
C24_DocumentedDefaultTtl ==
    ~cfgTimeout.given =>
        \A t \in Tasks : inv[t].writes = 1 =>
            inv[t].wex = [has |-> TRUE, secs |-> DocumentedTimeout]

(***************************************************************************)
(* C25. Key determinism: within one process run, two derivations of the    *)
(* key for one callable and equal (args, kwargs) give the identical        *)
(* string; in particular the same keyword arguments given in another order *)
(* give the same key.                                                      *)
(***************************************************************************)
C25_KeyDeterminism ==
    (calc.op = "key" /\ SameCall(calc.a, calc.b)) => calc.ka = calc.kb

\* the keys of f(x=1, y=2) and f(y=2, x=1) were derived and are the same string
C25_Witness ==
    /\ calc.op = "key"
    /\ calc.a = Call(<<>>, <<KwArg("x", JInt(1)), KwArg("y", JInt(2))>>)
    /\ calc.b = Call(<<>>, <<KwArg("y", JInt(2)), KwArg("x", JInt(1))>>)
    /\ calc.ka = calc.kb

(***************************************************************************)
(* C26. Key-argument sensitivity: with the default key function, two calls *)
(* of one callable whose (args, kwargs) are not equal get different keys.  *)
(***************************************************************************)
C26_KeyArgumentSensitivity ==
    (calc.op = "key" /\ ~SameCall(calc.a, calc.b)) => calc.ka # calc.kb

(***************************************************************************)
(* C27. Key composition: one invocation reads, writes and tracks under one *)
(* string.  That string is key_func(fn, *args) when a key function is      *)
(* configured and the default module:name:hash string otherwise, with      *)
(* prefix + ":" in front when a key prefix is configured and unchanged     *)
(* without one.                                                            *)
(***************************************************************************)
C27_ComposedKey(a) ==
    LET base == IF cfgKeyFunc THEN <<"custom", ":", "user", ":">> \o IntStr(a)
                ELSE DefaultKeyOf(1, Call(<<JInt(a)>>, <<>>))
    IN IF cfgKey.has THEN cfgKey.s \o <<":">> \o base ELSE base

C27_KeyComposition ==
    [][\A t \in Tasks :
          LET k == C27_ComposedKey(inv[t].arg) IN
          /\ (inv'[t].pc = "get" /\ inv[t].pc # "get")
                => inv'[t].key = C27_ComposedKey(inv'[t].arg)
          /\ ReadCompletes(t)
                => /\ inv'[t].read = "hit" => store[k].present
                   /\ inv'[t].read = "absent" => ~store[k].present
          /\ (WriteCompletes(t) /\ inv'[t].wrote)
                => /\ store' = [store EXCEPT ![k] = Entry(inv[t].wval)]
                   /\ cacheKeys' = cacheKeys \cup {k}]_vars

\* with a prefix and a key function configured, an invocation of argument 1 read a
\* miss under myprefix:custom:user:1, wrote there and tracked that key, and a second
\* invocation was served from it
C27_Witness ==
    /\ cfgKey = KeyOpt(TestPrefix) /\ cfgKeyFunc
    /\ cacheKeys = {<<"myprefix", ":", "custom", ":", "user", ":", "1">>}
    /\ store[<<"myprefix", ":", "custom", ":", "user", ":", "1">>].present
    /\ inv["t1"].arg = 1 /\ inv["t1"].wrote /\ inv["t1"].tracked
    /\ inv["t2"].arg = 1 /\ inv["t2"].read = "hit" /\ inv["t2"].pc = "done"

(***************************************************************************)
(* C28. Namespace isolation by prefix: two wrappers on one store with      *)
(* different key prefixes never derive the same full key, whatever the     *)
(* prefixes and base keys, the separator among their characters included.  *)
(***************************************************************************)
C28_PrefixIsolation ==
    (calc.op = "prefix" /\ calc.p # calc.q) => calc.ka # calc.kb

(***************************************************************************)
(* C29. Encode/decode round trip: for every JSON-representable value v     *)
(* (strings, integers, booleans, null, lists, string-keyed mappings) the   *)
(* text _encode gives is accepted by _decode, and _decode gives a value    *)
(* equal to v: the same JSON value, and so equal under Python's ==.        *)
(***************************************************************************)
C29_RoundTrip ==
    calc.op = "codec" => /\ calc.ok
                         /\ JsonEq(calc.dec, calc.v)
                         /\ PyEq(calc.dec, calc.v)

\* {"b": [1], "a": {"b": None, "a": 1}} was encoded as
\* {"a": {"a": 1, "b": null}, "b": [1]} and decoded to an equal mapping
C29_Witness ==
    /\ calc.op = "codec"
    /\ calc.v = JDict(<<[k |-> <<"b">>, v |-> JList(<<JInt(1)>>)],
                        [k |-> <<"a">>,
                         v |-> JDict(<<[k |-> <<"b">>, v |-> JNull],
                                       [k |-> <<"a">>, v |-> JInt(1)]>>)]>>)
    /\ calc.enc = <<"{", "\"", "a", "\"", ":", " ",
                         "{", "\"", "a", "\"", ":", " ", "1", ",", " ",
                              "\"", "b", "\"", ":", " ", "n", "u", "l", "l", "}",
                    ",", " ", "\"", "b", "\"", ":", " ", "[", "1", "]", "}">>
    /\ calc.ok
    /\ JsonEq(calc.dec, calc.v)

\* the keys of every mapping in v stand in ascending order
RECURSIVE C30_KeysAscending(_)
C30_KeysAscending(v) ==
    CASE v.tag = "list" -> \A i \in 1..Len(v.items) : C30_KeysAscending(v.items[i])
      [] v.tag = "dict" ->
            /\ \A i, j \in 1..Len(v.items) :
                  i < j => StrLess(v.items[i].k, v.items[j].k)
            /\ \A i \in 1..Len(v.items) : C30_KeysAscending(v.items[i].v)
      [] OTHER -> TRUE

(***************************************************************************)
(* C30. Canonical encoding: two values that are the same mapping at every  *)
(* nesting level, whatever the insertion order, encode to the identical    *)
(* string, and the keys of every mapping stand in the text in sorted       *)
(* order.                                                                  *)
(***************************************************************************)
C30_CanonicalEncoding ==
    calc.op = "canon" => /\ JsonEq(calc.v, calc.w) => calc.ev = calc.ew
                         /\ C30_KeysAscending(calc.dv)

\* {"b": 1, "a": 1, "ab": 1} and {"ab": 1, "b": 1, "a": 1} were both encoded as
\* {"a": 1, "ab": 1, "b": 1}
C30_Witness ==
    /\ calc.op = "canon"
    /\ calc.v = JDict(<<[k |-> <<"b">>, v |-> JInt(1)], [k |-> <<"a">>, v |-> JInt(1)],
                        [k |-> <<"a", "b">>, v |-> JInt(1)]>>)
    /\ calc.w = JDict(<<[k |-> <<"a", "b">>, v |-> JInt(1)],
                        [k |-> <<"b">>, v |-> JInt(1)], [k |-> <<"a">>, v |-> JInt(1)]>>)
    /\ calc.ev = <<"{", "\"", "a", "\"", ":", " ", "1", ",", " ",
                   "\"", "a", "b", "\"", ":", " ", "1", ",", " ",
                   "\"", "b", "\"", ":", " ", "1", "}">>
    /\ calc.ew = calc.ev

(***************************************************************************)
(* C34. Tracked set agrees with the store under interleaving: with a store *)
(* that never fails and never expires entries, whenever no invocation and  *)
(* no cache_clear is in flight, the tracked-key set is the set of keys in  *)
(* the store that this wrapper wrote.                                      *)
(***************************************************************************)
C34_TrackedAgreesWithStore ==
    (Quiescent /\ clr.pc = "idle") => cacheKeys = {k \in Keys : store[k].present}

C35_InvalidateNeverRaises ==
    /\ cacheKeys # {} => redisClient # NoClient /\ GetRedis.err = "none"
    /\ clr.pc = "delete" => clr.client # NoClient
    /\ clr.outcome # "raised"
    /\ (~cfgRedis /\ ~cfgUrl) =>
          /\ clr.pc = "idle" /\ clr.deletes = 0
          /\ redisClient = NoClient /\ fromUrlCalls = 0
          /\ hits = 0 /\ misses = 0 /\ cacheKeys = {}
          /\ clears > 0 => clr.outcome = "returned"

\* a wrapper with no client and no url, on which an invocation raised the ValueError,
\* has been cleared
C35_Witness ==
    /\ ~cfgRedis /\ ~cfgUrl
    /\ clears = 1
    /\ clr.outcome = "returned"
    /\ \E t \in Tasks : inv[t].err = "ValueError"

(***************************************************************************)
(* C37. Non-encodable result: an invocation whose fn returned a value that *)
(* json.dumps rejects returns that value without raising, issues no        *)
(* client.set and does not track the key; the key stays out of the store,  *)
(* so every later invocation with the same argument is a miss again and    *)
(* calls fn again.                                                         *)
(***************************************************************************)
C37_NonEncodableResult ==
    /\ \A t \in Tasks :
          (inv[t].fnOut = "returned" /\ ~CanEncode(inv[t].result)) =>
             /\ inv[t].pc = "done"
             /\ inv[t].outcome = "returned"
             /\ inv[t].ret = inv[t].result
             /\ inv[t].writes = 0
             /\ ~inv[t].wrote /\ ~inv[t].tracked
    /\ \A a \in Args :
          (\A r \in SeqResults(a) : ~CanEncode(r)) =>
             /\ ~store[MakeKey(a)].present
             /\ MakeKey(a) \notin cacheKeys
             /\ fnCount[a] = callCount[a]
                               - Cardinality({t \in Tasks : inv[t].arg = a
                                                               /\ inv[t].pc = "get"})
             /\ \A t \in Tasks :
                   (inv[t].arg = a /\ inv[t].pc = "done") =>
                      inv[t].read = "absent" /\ inv[t].missInc = 1 /\ inv[t].fnCalls = 1

\* the argument with the non-encodable result was passed three times and fn ran
\* three times
C37_Witness ==
    /\ Quiescent
    /\ callCount[2] = 3
    /\ fnCount[2] = 3
    /\ misses = 3
    /\ \E t \in Tasks : inv[t].arg = 2 /\ inv[t].pc = "done" /\ inv[t].ret = JOpaque

(***************************************************************************)
(* C39. A cached null result is a hit: an invocation whose client.get      *)
(* returns the stored string "null" counts a hit and returns None without  *)
(* calling fn; presence is decided on the stored string, not on what it    *)
(* decodes to.                                                             *)
(***************************************************************************)
C39_CachedNullIsAHit ==
    [][\A t \in Tasks :
          (ReadCompletes(t) /\ Found(t).present /\ Found(t).val = Encode(JNull)) =>
             /\ inv'[t].pc = "done"
             /\ inv'[t].read = "hit"
             /\ inv'[t].outcome = "returned"
             /\ inv'[t].ret = JNull
             /\ inv'[t].fnCalls = 0
             /\ hits' = hits + 1
             /\ misses' = misses
             /\ fnCount' = fnCount]_vars

\* fn returned None for argument 1 once and the write succeeded; the next invocation
\* with argument 1 was a hit that returned None
C39_Witness ==
    /\ store[MakeKey(1)] = Entry(Encode(JNull))
    /\ fnCount[1] = 1
    /\ callCount[1] = 2
    /\ hits = 1
    /\ \E t \in Tasks : /\ inv[t].arg = 1 /\ inv[t].pc = "done"
                        /\ inv[t].read = "hit" /\ inv[t].ret = JNull

\* a key the store holds and the wrapper does not track
Orphan(k) == store[k].present /\ k \notin cacheKeys

(***************************************************************************)
(* C40. Orphaned entries after a failed delete: when client.delete raises  *)
(* in cache_clear, the keys it was given stay in the store and are no      *)
(* longer tracked; a later invocation on such a key is a hit that does not *)
(* track it, so the tracked set, which get_cache_info reports as currsize, *)
(* does not count it, and a later cache_clear passes no such key to        *)
(* client.delete.                                                          *)
(***************************************************************************)
C40_OrphansAfterFailedDelete ==
    /\ [](clr.delRaised => \A k \in clr.keys : Orphan(k))
    /\ [][/\ (clr.pc = "delete" /\ clr'.delRaised) =>
                /\ store' = store
                /\ cacheKeys' = {}
                /\ clr'.keys = clr.keys /\ clr'.keys # {}
          /\ \A t \in Tasks :
                (ReadCompletes(t) /\ Orphan(inv[t].key)) =>
                   /\ inv'[t].read = "hit"
                   /\ inv'[t].outcome = "returned"
                   /\ Orphan(inv[t].key)'
                   /\ fnCount' = fnCount
          /\ (GetCacheInfo /\ cacheKeys = {}) => currsize' = 0
          /\ clears' = clears + 1 =>
                /\ \A k \in Keys : Orphan(k) => k \notin clr'.keys
                /\ cacheKeys = {} => clr'.deletes = 0 /\ store' = store]_vars

\* the first cache_clear's delete raised; the next invocation was a hit; the size read
\* after it was 0; the second cache_clear issued no delete and the entry is still there
C40_Witness ==
    /\ clears = 2
    /\ clr.pc = "idle" /\ clr.deletes = 0
    /\ currsize = 0
    /\ cacheKeys = {}
    /\ \E t \in Tasks : /\ inv[t].pc = "done" /\ inv[t].read = "hit"
                        /\ store[inv[t].key].present

\* task t calls the wrapper with an argument whose key cannot be derived
C38_KeyErrorCall(t) ==
    /\ inv[t].pc \in {"idle", "done"}
    /\ inv'[t] # inv[t]
    /\ inv'[t].arg = 0

(***************************************************************************)
(* C38. Key derivation failure is not fail-open: when _make_key raises,    *)
(* for a key function that raises or an unhashable argument under the      *)
(* default key function, the invocation ends with that error without a     *)
(* client.get and without calling fn, and hits, misses, the tracked-key    *)
(* set and the store are unchanged.                                        *)
(***************************************************************************)
C38_KeyFailureNotFailOpen ==
    [][\A t \in Tasks :
          C38_KeyErrorCall(t) =>
             /\ inv'[t].pc = "done"
             /\ inv'[t].outcome = "raised"
             /\ inv'[t].err = KeyError
             /\ inv'[t].reads = 0
             /\ inv'[t].fnCalls = 0
             /\ inv'[t].writes = 0
             /\ hits' = hits /\ misses' = misses
             /\ cacheKeys' = cacheKeys
             /\ store' = store
             /\ fnCount' = fnCount]_vars

\* after a miss that stored and tracked a key, an invocation ended with the error of
\* the custom key function
C38_Witness ==
    /\ cfgKeyFunc
    /\ misses = 1
    /\ Cardinality(cacheKeys) = 1
    /\ \E t \in Tasks : inv[t].pc = "done" /\ inv[t].err = "KeyFuncError"

\* what the caller of wrapper w can observe of its bookkeeping
C31_Bookkeeping(w) == [hits |-> reg.infos[reg.wrap[w].info].hits,
                       misses |-> reg.infos[reg.wrap[w].info].misses,
                       keys |-> reg.keysets[reg.wrap[w].keys]]

(***************************************************************************)
(* C31. Exclusive ownership of bookkeeping: two wrapped callables never    *)
(* refer to the same CacheInfo object or the same tracked-key set, also    *)
(* when they were made by one decorator object or from one function; and   *)
(* an invocation, a get_cache_info or a cache_clear of one wrapper leaves  *)
(* the hits, misses and tracked-key set of the other wrapper unchanged.    *)
(***************************************************************************)
C31_ExclusiveOwnership ==
    /\ [](\A w, u \in Wrappers :
             (w # u /\ reg.wrap[w].made /\ reg.wrap[u].made) =>
                /\ reg.wrap[w].info # reg.wrap[u].info
                /\ reg.wrap[w].keys # reg.wrap[u].keys)
    /\ [][\A w, u \in Wrappers :
             (/\ w # u
              /\ reg.wrap[u].made
              /\ \/ \E a \in Args : InvokeWrapper(w, a)
                 \/ InfoOfWrapper(w)
                 \/ ClearWrapper(w))
             => C31_Bookkeeping(u)' = C31_Bookkeeping(u)]_vars

\* one function wrapped twice by one decorator object: w1 missed, then hit; w2 hit on
\* the entry w1 wrote and tracks nothing
C31_Witness ==
    /\ reg.wrap["w1"].made /\ reg.wrap["w2"].made
    /\ reg.wrap["w1"].deco = reg.wrap["w2"].deco
    /\ reg.wrap["w1"].fn = reg.wrap["w2"].fn
    /\ C31_Bookkeeping("w1") = [hits |-> 1, misses |-> 1, keys |-> {<<"f", 1>>}]
    /\ C31_Bookkeeping("w2") = [hits |-> 1, misses |-> 0, keys |-> {}]

(***************************************************************************)
(* C32. Throttler delay after release: in acquire and async_acquire, a     *)
(* request is sleeping only after its slot was released, only for a        *)
(* mutating method and a positive mutating_sleep_seconds; the slots are    *)
(* held by exactly the requests inside the with block, so a waiting        *)
(* request can take a slot whenever fewer than max_concurrency requests    *)
(* are inside it, however many are sleeping; a request that ended without  *)
(* an exception slept if and only if it was mutating and the setting       *)
(* positive.                                                               *)
(***************************************************************************)
C32_DelayAfterRelease ==
    thr.made =>
       /\ thr.held = {r \in Requests : thr.req[r].pc = "body"}
       /\ Cardinality(thr.held) <= thr.max
       /\ \A r \in Requests :
             LET q == thr.req[r]
                 delayed == q.method \in MUTATING_METHODS /\ thr.sleep > 0
             IN /\ q.pc = "sleeping" => r \notin thr.held /\ delayed
                /\ q.slept => delayed /\ ~q.raised
                /\ (q.pc = "done" /\ ~q.raised /\ delayed) => q.slept
                /\ (/\ q.pc = "waiting"
                    /\ Cardinality({u \in Requests : thr.req[u].pc = "body"}) < thr.max)
                   => ENABLED SemaphoreEnter(r)

\* with one slot, the first request sleeps after its DELETE while the second request
\* is inside the with block
C32_Witness ==
    /\ thr.made
    /\ thr.max = 1
    /\ thr.req["r1"].pc = "sleeping" /\ thr.req["r1"].method = "DELETE"
    /\ thr.req["r2"].pc = "body"
    /\ thr.held = {"r2"}

(***************************************************************************)
(* C33. Webhook handler is guarded by signature verification: on a route   *)
(* registered with add_webhook, the parser and the handler run only after  *)
(* the validator was called and the signature header is the sha256         *)
(* signature of the request's payload under the router's secret; a request *)
(* whose header is anything else (another secret, another payload, no      *)
(* prefix or sha1=, empty) ends with 401 "Invalid signature", the parser   *)
(* and the handler not called.                                             *)
(***************************************************************************)
C33_HandlerGuardedBySignature ==
    web.made =>
       LET q == web.req
           valid == q.sig = Sign(web.secret, q.payload)
       IN /\ (q.parseCalls > 0 \/ q.handlerCalls > 0 \/ q.pc \in {"parse", "handle"}) =>
                valid /\ q.validatorCalls = 1
          /\ q.handlerCalls > 0 => q.parseCalls = 2
          /\ q.status = 200 => valid /\ q.handlerCalls = 1
          /\ (q.pc = "done" /\ q.sig # NoHeader /\ ~valid) =>
                /\ q.status = 401
                /\ q.detail = "Invalid signature"
                /\ q.validatorCalls = 1
                /\ q.parseCalls = 0
                /\ q.handlerCalls = 0

\* a request whose signature was made with the router's secret over another payload
\* was rejected
C33_Witness ==
    /\ web.made
    /\ web.req.pc = "done"
    /\ web.req.sig = Sign(web.secret, "p2")
    /\ web.req.payload = "p1"
    /\ web.req.evt
    /\ web.req.status = 401

====
